---- MODULE Spec2Model ----
(***************************************************************************)
(* A model of the bounded video cache of the player (src/cache_manager.py), *)
(* of the service that fetches video links (src/api_service.py) and of the *)
(* threads that drive them (src/main_window.py).                           *)
(*                                                                         *)
(* A file of the cache directory is named video_<t>.mp4, <t> being the     *)
(* value of int(time.time()) when cache_video chose the name; the model    *)
(* identifies that path with the integer t.  The two deques of the cache   *)
(* manager hold paths; the model pairs every queued path with the ordinal  *)
(* of its admission (field ord), which the code does not store and no      *)
(* operation reads: it only lets the properties speak of admission order.  *)
(***************************************************************************)
EXTENDS Naturals, Sequences, FiniteSets

(* ------------------------------ bounds -------------------------------- *)
\* max_cache of the modelled CacheManager (the program's default is 55)
max_cache == 2
\* names 1..NPre are files left in the cache directory by earlier runs
NPre == 3
\* of which the directory the running store was constructed on holds 1..NSeed
NSeed == 1
\* the clock starts at NPre + 1 and is followed up to MaxClock
MaxClock == 5
\* admissions (appends to video_queue, the seeded ones included) followed
MaxAdmits == 3

VARIABLES
    clock,          \* int(time.time())
    disk,           \* the cache directory: path -> file
    video_queue,    \* CacheManager.video_queue  (unplayed)
    played_videos,  \* CacheManager.played_videos
    constructed,    \* CacheManager.__init__ has run
    pc,             \* per thread: where it stands inside cache_video
    tpath,          \* per thread: video_path of the cache_video call in progress
    op,             \* the last call completed
    ret,            \* its return value: <<>> is None, <<p>> is the path p
    chosen,         \* the path the last call was about (<<>> if none)
    skipped,        \* records the last get_next_video discarded
    rmFailed,       \* paths whose os.remove raised during the last call
    nadmit,         \* number of records appended to video_queue so far
    usedNames,      \* file names chosen by the cache_video calls so far
    taken           \* paths get_next_video returned and no admission appended since
VARIABLES
    current_api_index,  \* APIService.current_api_index
    fail_count,         \* APIService.fail_count
    retries,            \* per thread: retries of its get_video_link call (0 outside)
    apc,                \* per thread: where it stands inside get_video_link
    loaded,             \* per thread: fail_count as read by its pending += 1 (else 0)
    nreq,               \* per thread: requests its current call has issued
    aret,               \* per thread: whether its call returned, and the URL (<<>> is None)
    cand,               \* per thread: the redirect chain behind the URL extracted
    ncalls,             \* get_video_link calls started so far
    ncross,             \* times fail_count went from below the threshold to it
    nswitch,            \* times _switch_api advanced the index
    answer,             \* per thread: how its last request ended
    chain,              \* follow_redirects: what the network answers
    rret,               \* follow_redirects: <<>> or the result of the call
    data,               \* _extract_video_url: the parsed body
    xret,               \* _extract_video_url: <<>> or the result of the call
    held,               \* get_next_video: the record popped, not yet checked
    observed,           \* the last counts the progress thread read
    need_to_clean,      \* clean_old_cache: need_to_clean of the pass in progress
    evictFailed         \* paths whose os.remove raised in the pass in progress
VARIABLES
    stop_cache_event,   \* MainWindow.stop_cache_event is set
    fpc,                \* where the filler thread stands in cache_videos
    wait,               \* cache_videos: seconds of the time.sleep in progress
    late,               \* calls cache_videos completed since the flag was set
    is_loading,         \* MainWindow.is_loading
    ppc                 \* where the window's thread stands in _play_next_video
VARIABLES
    text,               \* _extract_url_from_text: <<>> or the text handed to it
    tret                \* _extract_url_from_text: <<>> or the result of the call
VARIABLES
    wait_time,          \* get_video_link: seconds of its last time.sleep
    slept               \* get_video_link: seconds slept in the call so far

cachevars == <<clock, disk, video_queue, played_videos, constructed, pc, tpath,
               op, ret, chosen, skipped, rmFailed, nadmit, usedNames, taken>>
apivars == <<current_api_index, fail_count, retries, apc, loaded, nreq, aret,
             cand, ncalls, ncross, nswitch, answer>>
redirectvars == <<chain, rret>>
extractvars == <<data, xret, text, tret>>
pollvars == <<held, observed, need_to_clean, evictFailed>>
drivervars == <<stop_cache_event, fpc, wait, late, is_loading, ppc>>
sleepvars == <<wait_time, slept>>
vars == <<cachevars, apivars, redirectvars, extractvars, pollvars, drivervars,
          sleepvars>>

Paths == 1..MaxClock
PrePaths == 1..NPre
Threads == {"filler", "ui"}

(* --------------- the other components, when nothing runs -------------- *)
\* APIService.__init__: first endpoint, no failure counted, no call running
ServiceIdle ==
    /\ current_api_index = 0
    /\ fail_count = 0
    /\ retries = [t \in Threads |-> 0]
    /\ apc = [t \in Threads |-> "idle"]
    /\ loaded = [t \in Threads |-> 0]
    /\ nreq = [t \in Threads |-> 0]
    /\ aret = [t \in Threads |-> [done |-> FALSE, url |-> <<>>]]
    /\ cand = [t \in Threads |-> <<>>]
    /\ ncalls = 0
    /\ ncross = 0
    /\ nswitch = 0
    /\ answer = [t \in Threads |-> ""]
\* no follow_redirects call made
RedirectIdle == chain = <<>> /\ rret = <<>>
\* no _extract_video_url and no _extract_url_from_text call made
ExtractIdle == data = <<>> /\ xret = <<>> /\ text = <<>> /\ tret = <<>>
\* no time.sleep of get_video_link timed
SleepIdle == wait_time = 0 /\ slept = 0
\* MainWindow before _start_cache_thread, no _play_next_video running
DriverIdle ==
    /\ stop_cache_event = FALSE
    /\ fpc = "unstarted"
    /\ wait = 0
    /\ late = [acquire |-> 0, admit |-> 0]
    /\ is_loading = FALSE
    /\ ppc = "idle"
\* no get_next_video in progress, no count read yet, no eviction pass running
PollIdle ==
    /\ held = <<>> /\ observed = <<>>
    /\ need_to_clean = 0 /\ evictFailed = {}

(* ---------------------------- file system ------------------------------ *)
NoFile == [ex |-> FALSE, mp4 |-> FALSE, size |-> 0, mtime |-> 0]
File(sz, mt) == [ex |-> TRUE, mp4 |-> TRUE, size |-> sz, mtime |-> mt]
EmptyDisk == [p \in Paths |-> NoFile]

\* os.path.exists(p)
exists(d, p) == d[p].ex
\* os.path.getsize(p)
getsize(d, p) == d[p].size
\* os.remove(p), when it does not raise
os_remove(d, p) == [d EXCEPT ![p] = NoFile]
\* os.path.exists(p) and os.path.getsize(p) > 0
IsValid(d, p) == exists(d, p) /\ getsize(d, p) > 0

(* ------------------------------ deques --------------------------------- *)
Entry(p, n) == [path |-> p, ord |-> n]
PathsOf(q) == {q[i].path : i \in 1..Len(q)}
\* video_path in deque
InQueue(p, q) == p \in PathsOf(q)
FirstIndex(p, q) == CHOOSE i \in 1..Len(q) :
                        q[i].path = p /\ \A j \in 1..(i - 1) : q[j].path # p
\* deque.remove(video_path): removes the first occurrence
DequeRemove(q, p) == LET i == FirstIndex(p, q)
                     IN SubSeq(q, 1, i - 1) \o SubSeq(q, i + 1, Len(q))
\* deque.appendleft(x)
AppendLeft(q, e) == <<e>> \o q
\* deque.append(x)
DequeAppend(q, e) == Append(q, e)

(* ------------------------- clean_old_cache ----------------------------- *)
\* One of the two while loops of clean_old_cache over the deque q: lk is
\* the set of paths whose os.remove raises.  need_to_clean is decremented
\* inside the try block, after os.remove.
\* The loop of clean_old_cache if a raising os.remove ended the pass
RECURSIVE CleanLoopAbort(_, _, _, _, _)
CleanLoopAbort(q, need, d, lk, failed) ==
    IF need > 0 /\ q # <<>>
    THEN LET old_video == Head(q).path
         IN IF exists(d, old_video)
            THEN IF old_video \in lk
                 THEN [q |-> Tail(q), need |-> 0, disk |-> d,
                       failed |-> failed \cup {old_video}]
                 ELSE CleanLoopAbort(Tail(q), need - 1, os_remove(d, old_video),
                                     lk, failed)
            ELSE CleanLoopAbort(Tail(q), need - 1, d, lk, failed)
    ELSE [q |-> q, need |-> need, disk |-> d, failed |-> failed]

RECURSIVE CleanLoop(_, _, _, _, _)
CleanLoop(q, need, d, lk, failed) ==
    IF need > 0 /\ q # <<>>
    THEN LET old_video == Head(q).path
         IN IF exists(d, old_video)
            THEN IF old_video \in lk
                 THEN CleanLoop(Tail(q), need, d, lk, failed \cup {old_video})
                 ELSE CleanLoop(Tail(q), need - 1, os_remove(d, old_video), lk, failed)
            ELSE CleanLoop(Tail(q), need - 1, d, lk, failed)
    ELSE [q |-> q, need |-> need, disk |-> d, failed |-> failed]

\* clean_old_cache without its second loop
CleanPlayedOnly(vq, pv, d, lk) ==
    LET total_cache == Len(vq) + Len(pv)
    IN IF total_cache > max_cache
       THEN LET a == CleanLoop(pv, total_cache - max_cache, d, lk, {})
            IN [vq |-> vq, pv |-> a.q, disk |-> a.disk, failed |-> a.failed]
       ELSE [vq |-> vq, pv |-> pv, disk |-> d, failed |-> {}]
clean_old_cache(vq, pv, d, lk) ==
    LET total_cache == Len(vq) + Len(pv)
    IN IF total_cache > max_cache
       THEN LET a == CleanLoop(pv, total_cache - max_cache, d, lk, {})
                b == CleanLoop(vq, a.need, a.disk, lk, a.failed)
            IN [vq |-> b.q, pv |-> a.q, disk |-> b.disk, failed |-> b.failed]
       ELSE [vq |-> vq, pv |-> pv, disk |-> d, failed |-> {}]

(* -------------------------- get_next_video ----------------------------- *)
RECURSIVE GetNextLoop(_, _, _, _, _, _)
GetNextLoop(q, pv, d, lk, sk, failed) ==
    IF q # <<>>
    THEN LET e == Head(q)
         IN IF IsValid(d, e.path)
            THEN [vq |-> Tail(q), pv |-> DequeAppend(pv, e), disk |-> d,
                  ret |-> <<e.path>>, skipped |-> sk, failed |-> failed]
            ELSE IF exists(d, e.path)
                 THEN IF e.path \in lk
                      THEN GetNextLoop(Tail(q), pv, d, lk, Append(sk, e),
                                       failed \cup {e.path})
                      ELSE GetNextLoop(Tail(q), pv, os_remove(d, e.path), lk,
                                       Append(sk, e), failed)
                 ELSE GetNextLoop(Tail(q), pv, d, lk, Append(sk, e), failed)
    ELSE [vq |-> q, pv |-> pv, disk |-> d, ret |-> <<>>, skipped |-> sk,
          failed |-> failed]

\* get_next_video without the check of the file
GetNextNoCheck(vq, pv, d, lk) ==
    IF vq # <<>>
    THEN [vq |-> Tail(vq), pv |-> DequeAppend(pv, Head(vq)), disk |-> d,
          ret |-> <<Head(vq).path>>, skipped |-> <<>>, failed |-> {}]
    ELSE [vq |-> vq, pv |-> pv, disk |-> d, ret |-> <<>>, skipped |-> <<>>,
          failed |-> {}]
\* get_next_video without the append to played_videos
GetNextDropTaken(vq, pv, d, lk) ==
    [GetNextLoop(vq, pv, d, lk, <<>>, {}) EXCEPT !.pv = pv]

get_next_video(vq, pv, d, lk) == GetNextLoop(vq, pv, d, lk, <<>>, {})

(* ---------------------------- cache_video ------------------------------ *)
\* filename = f"video_{int(time.time())}.mp4": the name is the clock's second
ChooseName(t) == t
\* open(video_path, 'wb'): creates the file, or truncates the one there
OpenWB(d, p, t) == [d EXCEPT ![p] = File(0, t)]
\* f.write(chunk) of a non-empty chunk
WriteChunk(d, p, t) == [d EXCEPT ![p] = File(1, t)]

\* The two except branches of cache_video (they do the same): the file at
\* video_path is removed if it exists; a failing os.remove is logged.
ExceptCleanup(vq, pv, d, p, lk) ==
    IF exists(d, p)
    THEN IF p \in lk
         THEN [vq |-> vq, pv |-> pv, disk |-> d, ret |-> <<>>, failed |-> {p},
               appended |-> FALSE]
         ELSE [vq |-> vq, pv |-> pv, disk |-> os_remove(d, p), ret |-> <<>>,
               failed |-> {}, appended |-> FALSE]
    ELSE [vq |-> vq, pv |-> pv, disk |-> d, ret |-> <<>>, failed |-> {},
          appended |-> FALSE]

\* After the download: the check of the file, the append and the eviction
\* pass; n is the ordinal given to the new record.
VerifyAndAppend(vq, pv, d, p, n, lk) ==
    IF exists(d, p) /\ getsize(d, p) > 0
    THEN LET c == clean_old_cache(DequeAppend(vq, Entry(p, n)), pv, d, lk)
         IN [vq |-> c.vq, pv |-> c.pv, disk |-> c.disk, ret |-> <<p>>,
             failed |-> c.failed, appended |-> TRUE]
    ELSE [vq |-> vq, pv |-> pv, disk |-> d, ret |-> <<>>, failed |-> {},
          appended |-> FALSE]

\* What a download can do: "ok" writes a non-empty body; "empty" is a 200
\* response with an empty body; "error_before_open" is an exception of
\* requests.get or raise_for_status; "error_after_open" and
\* "error_after_chunk" are exceptions raised while the body is streamed.
Outcomes == {"ok", "empty", "error_before_open", "error_after_open",
             "error_after_chunk"}
Raises(outcome) == outcome \in {"error_before_open", "error_after_open",
                                "error_after_chunk"}
Download(d, p, t, outcome) ==
    CASE outcome = "ok" -> WriteChunk(OpenWB(d, p, t), p, t)
      [] outcome = "empty" -> OpenWB(d, p, t)
      [] outcome = "error_before_open" -> d
      [] outcome = "error_after_open" -> OpenWB(d, p, t)
      [] outcome = "error_after_chunk" -> WriteChunk(OpenWB(d, p, t), p, t)

\* A whole call of cache_video at clock t, no other thread running meanwhile
cache_video(vq, pv, d, t, n, outcome, lk) ==
    LET video_path == ChooseName(t)
        d1 == Download(d, video_path, t, outcome)
    IN IF Raises(outcome)
       THEN ExceptCleanup(vq, pv, d1, video_path, lk)
       ELSE VerifyAndAppend(vq, pv, d1, video_path, n, lk)

(* ---------------------- move_to_played, remove_video ------------------- *)
\* move_to_played without the append to played_videos
MoveDropRecord(vq, pv, p) ==
    IF InQueue(p, vq)
    THEN [vq |-> DequeRemove(vq, p), pv |-> pv]
    ELSE [vq |-> vq, pv |-> pv]

move_to_played(vq, pv, p) ==
    IF InQueue(p, vq)
    THEN [vq |-> DequeRemove(vq, p),
          pv |-> DequeAppend(pv, vq[FirstIndex(p, vq)])]
    ELSE [vq |-> vq, pv |-> pv]

\* the try block of remove_video, the same in its two branches
RemoveFile(d, p, lk) ==
    IF exists(d, p)
    THEN IF p \in lk THEN [disk |-> d, failed |-> {p}]
                     ELSE [disk |-> os_remove(d, p), failed |-> {}]
    ELSE [disk |-> d, failed |-> {}]

\* remove_video without its elif branch
RemoveUnplayedOnly(vq, pv, d, p, lk) ==
    IF InQueue(p, vq)
    THEN LET r == RemoveFile(d, p, lk)
         IN [vq |-> DequeRemove(vq, p), pv |-> pv, disk |-> r.disk,
             failed |-> r.failed]
    ELSE [vq |-> vq, pv |-> pv, disk |-> d, failed |-> {}]

remove_video(vq, pv, d, p, lk) ==
    IF InQueue(p, vq)
    THEN LET r == RemoveFile(d, p, lk)
         IN [vq |-> DequeRemove(vq, p), pv |-> pv, disk |-> r.disk,
             failed |-> r.failed]
    ELSE IF InQueue(p, pv)
         THEN LET r == RemoveFile(d, p, lk)
              IN [vq |-> vq, pv |-> DequeRemove(pv, p), disk |-> r.disk,
                  failed |-> r.failed]
         ELSE [vq |-> vq, pv |-> pv, disk |-> d, failed |-> {}]

(* --------------------------- get_cache_size ---------------------------- *)
\* total_size += os.path.getsize(filepath), over the files of the set S
RECURSIVE SumSizes(_, _)
SumSizes(S, d) ==
    IF S = {} THEN 0
    ELSE LET p == CHOOSE x \in S : TRUE
         IN getsize(d, p) + SumSizes(S \ {p}, d)
\* os.walk(cache_dir): every file of the directory whose name ends in
\* .mp4 and that exists is counted, when nothing raises
get_cache_size(d) == SumSizes({p \in Paths : d[p].mp4 /\ exists(d, p)}, d)

(* ------------------------ _load_existing_cache ------------------------- *)
\* os.listdir returns the directory's names in an arbitrary order
Listings(d) ==
    LET S == {p \in Paths : exists(d, p)}
    IN {s \in [1..Cardinality(S) -> S] : \A i, j \in 1..Cardinality(S) :
                                            s[i] = s[j] => i = j}
\* [f for f in os.listdir(cache_dir) if f.endswith('.mp4')]
RECURSIVE FilterMp4(_, _)
FilterMp4(s, d) ==
    IF s = <<>> THEN <<>>
    ELSE IF d[Head(s)].mp4 THEN <<Head(s)>> \o FilterMp4(Tail(s), d)
                           ELSE FilterMp4(Tail(s), d)
\* list.sort(key=getmtime) is stable: x goes after the elements whose
\* key is not greater
RECURSIVE InsertByMtime(_, _, _)
InsertByMtime(s, x, d) ==
    IF s = <<>> THEN <<x>>
    ELSE IF d[Head(s)].mtime <= d[x].mtime
         THEN <<Head(s)>> \o InsertByMtime(Tail(s), x, d)
         ELSE <<x>> \o s
RECURSIVE SortByMtime(_, _)
SortByMtime(s, d) ==
    IF s = <<>> THEN <<>>
    ELSE InsertByMtime(SortByMtime(SubSeq(s, 1, Len(s) - 1), d), s[Len(s)], d)
\* for file in cache_files: self.video_queue.append(file_path)
SeedQueue(files) == [i \in 1..Len(files) |-> Entry(files[i], i)]

_load_existing_cache(d, listing, lk) ==
    clean_old_cache(SeedQueue(SortByMtime(FilterMp4(listing, d), d)), <<>>, d, lk)

(* ======================= the store, call by call ======================= *)
\* the paths whose os.remove the next cache_video (at clock t) can attempt
Removable(t) ==
    {p \in PathsOf(video_queue) \cup PathsOf(played_videos) : exists(disk, p)}
        \cup {t}
\* the paths whose os.remove a cache_video at clock t attempts, given what
\* its download does: the file it wrote if the download raises, the files
\* of the eviction pass if the record is appended to a full store
Attempted(outcome, t) ==
    IF Raises(outcome) THEN {t}
    ELSE IF outcome = "ok" /\ Len(video_queue) + Len(played_videos) + 1 > max_cache
         THEN Removable(t)
         ELSE {}
\* the paths whose os.remove remove_video(p) attempts
AttemptedByRemove(p) ==
    {x \in {p} : exists(disk, x)
                    /\ (InQueue(x, video_queue) \/ InQueue(x, played_videos))}
\* the paths whose os.remove the next get_next_video can attempt
Stale == {p \in PathsOf(video_queue) : exists(disk, p) /\ ~IsValid(disk, p)}
NoThreads == [t \in Threads |-> "idle"]
NoPaths == [t \in Threads |-> 0]

\* directories the running store was constructed on
SeedDisks ==
    {d \in [Paths -> {NoFile} \cup {File(sz, mt) : sz \in 0..1, mt \in 1..NSeed}] :
        \A p \in Paths : exists(d, p) => p <= NSeed /\ d[p].mtime = p}

Init ==
    \E d \in SeedDisks : \E listing \in Listings(d) :
        LET c == _load_existing_cache(d, listing, {})
        IN /\ clock = NPre + 1
           /\ disk = c.disk
           /\ video_queue = c.vq
           /\ played_videos = c.pv
           /\ constructed = TRUE
           /\ pc = NoThreads
           /\ tpath = NoPaths
           /\ op = "__init__"
           /\ ret = <<>>
           /\ chosen = <<>>
           /\ skipped = <<>>
           /\ rmFailed = {}
           /\ nadmit = Len(FilterMp4(listing, d))
           /\ usedNames = {}
           /\ taken = {}
           /\ ServiceIdle /\ RedirectIdle /\ ExtractIdle /\ PollIdle
           /\ DriverIdle /\ SleepIdle

\* a second passes
Tick ==
    /\ clock < MaxClock
    /\ clock' = clock + 1
    /\ op' = "tick"
    /\ ret' = <<>> /\ chosen' = <<>> /\ skipped' = <<>> /\ rmFailed' = {}
    /\ UNCHANGED <<apivars, redirectvars, extractvars, pollvars, drivervars, sleepvars>>
    /\ UNCHANGED <<disk, video_queue, played_videos, constructed, pc, tpath,
                   nadmit, usedNames, taken>>

\* the file of a tracked record is deleted by something else than the store
ExternalDelete ==
    \E p \in PathsOf(video_queue) \cup PathsOf(played_videos) :
        /\ exists(disk, p)
        /\ disk' = os_remove(disk, p)
        /\ op' = "external_delete"
        /\ ret' = <<>> /\ chosen' = <<>> /\ skipped' = <<>> /\ rmFailed' = {}
        /\ UNCHANGED <<apivars, redirectvars, extractvars, pollvars, drivervars, sleepvars>>
        /\ UNCHANGED <<clock, video_queue, played_videos, constructed, pc, tpath,
                       nadmit, usedNames, taken>>

CacheVideo ==
    /\ constructed
    /\ nadmit < MaxAdmits
    /\ \E outcome \in Outcomes : \E lk \in SUBSET Attempted(outcome, clock) :
        LET r == cache_video(video_queue, played_videos, disk, clock,
                             nadmit + 1, outcome, lk)
        IN /\ video_queue' = r.vq
           /\ played_videos' = r.pv
           /\ disk' = r.disk
           /\ op' = "cache_video"
           /\ ret' = r.ret
           /\ chosen' = <<ChooseName(clock)>>
           /\ skipped' = <<>>
           /\ rmFailed' = r.failed
           /\ nadmit' = IF r.appended THEN nadmit + 1 ELSE nadmit
    /\ UNCHANGED <<apivars, redirectvars, extractvars, pollvars, drivervars, sleepvars>>
    /\ UNCHANGED <<clock, constructed, pc, tpath, usedNames, taken>>

GetNextVideo ==
    /\ constructed
    /\ \E lk \in SUBSET Stale :
        LET r == get_next_video(video_queue, played_videos, disk, lk)
        IN /\ video_queue' = r.vq
           /\ played_videos' = r.pv
           /\ disk' = r.disk
           /\ op' = "get_next_video"
           /\ ret' = r.ret
           /\ chosen' = <<>>
           /\ skipped' = r.skipped
           /\ rmFailed' = r.failed
    /\ UNCHANGED <<apivars, redirectvars, extractvars, pollvars, drivervars, sleepvars>>
    /\ UNCHANGED <<clock, constructed, pc, tpath, nadmit, usedNames, taken>>

MoveToPlayed ==
    /\ constructed
    /\ \E p \in Paths :
        LET r == move_to_played(video_queue, played_videos, p)
        IN /\ video_queue' = r.vq
           /\ played_videos' = r.pv
           /\ op' = "move_to_played"
           /\ ret' = <<>> /\ chosen' = <<p>> /\ skipped' = <<>> /\ rmFailed' = {}
    /\ UNCHANGED <<apivars, redirectvars, extractvars, pollvars, drivervars, sleepvars>>
    /\ UNCHANGED <<clock, disk, constructed, pc, tpath, nadmit, usedNames, taken>>

RemoveVideo ==
    /\ constructed
    /\ \E p \in Paths : \E lk \in SUBSET AttemptedByRemove(p) :
        LET r == remove_video(video_queue, played_videos, disk, p, lk)
        IN /\ video_queue' = r.vq
           /\ played_videos' = r.pv
           /\ disk' = r.disk
           /\ op' = "remove_video"
           /\ ret' = <<>> /\ chosen' = <<p>> /\ skipped' = <<>>
           /\ rmFailed' = r.failed
    /\ UNCHANGED <<apivars, redirectvars, extractvars, pollvars, drivervars, sleepvars>>
    /\ UNCHANGED <<clock, constructed, pc, tpath, nadmit, usedNames, taken>>

Next ==
    \/ Tick
    \/ ExternalDelete
    \/ CacheVideo
    \/ GetNextVideo
    \/ MoveToPlayed
    \/ RemoveVideo

Spec == Init /\ [][Next]_vars

(* ============================ construction ============================= *)
\* what CacheManager.__init__ can find in the cache directory
StartDisks ==
    {d \in [Paths -> {NoFile, [ex |-> TRUE, mp4 |-> FALSE, size |-> 1, mtime |-> 1]}
                     \cup {File(sz, mt) : sz \in 0..1, mt \in 1..NPre}] :
        \A p \in Paths : exists(d, p) => p \in PrePaths}

InitStartup ==
    /\ clock = NPre + 1
    /\ disk \in StartDisks
    /\ video_queue = <<>>
    /\ played_videos = <<>>
    /\ constructed = FALSE
    /\ pc = NoThreads
    /\ tpath = NoPaths
    /\ op = "start"
    /\ ret = <<>> /\ chosen = <<>> /\ skipped = <<>> /\ rmFailed = {}
    /\ nadmit = 0
    /\ usedNames = {}
    /\ taken = {}
    /\ ServiceIdle /\ RedirectIdle /\ ExtractIdle /\ PollIdle
    /\ DriverIdle /\ SleepIdle

\* CacheManager.__init__
Construct ==
    /\ ~constructed
    /\ \E listing \in Listings(disk) : \E lk \in SUBSET {p \in Paths : exists(disk, p)} :
        LET c == _load_existing_cache(disk, listing, lk)
        IN /\ video_queue' = c.vq
           /\ played_videos' = c.pv
           /\ disk' = c.disk
           /\ rmFailed' = c.failed
           /\ nadmit' = Len(FilterMp4(listing, disk))
    /\ constructed' = TRUE
    /\ op' = "__init__"
    /\ ret' = <<>> /\ chosen' = <<>> /\ skipped' = <<>>
    /\ UNCHANGED <<apivars, redirectvars, extractvars, pollvars, drivervars, sleepvars>>
    /\ UNCHANGED <<clock, pc, tpath, usedNames, taken>>

NextStartup == Construct

SpecStartup == InitStartup /\ [][NextStartup]_vars

(* ====================== two threads in cache_video ===================== *)
\* The background filler (cache_videos) and the window's thread
\* (_load_new_video_from_api) both call cache_video.  A call is followed
\* through its download: the name is chosen and the file opened, chunks are
\* written, then the call ends, by its check and append or by an exception.
\* pc is "writing" while the thread's open file is the one at its path and
\* "orphaned" once that file has been removed under it.
InitAdmit ==
    /\ clock = NPre + 1
    /\ disk = EmptyDisk
    /\ video_queue = <<>>
    /\ played_videos = <<>>
    /\ constructed = TRUE
    /\ pc = NoThreads
    /\ tpath = NoPaths
    /\ op = "__init__"
    /\ ret = <<>> /\ chosen = <<>> /\ skipped = <<>> /\ rmFailed = {}
    /\ nadmit = 0
    /\ usedNames = {}
    /\ taken = {}
    /\ ServiceIdle /\ RedirectIdle /\ ExtractIdle /\ PollIdle
    /\ DriverIdle /\ SleepIdle

\* pcs once the files missing from d2 are gone: a thread whose open file
\* was removed writes to no file of the directory any more
Orphan(pcs, d2) ==
    [t \in Threads |-> IF pcs[t] = "writing" /\ ~exists(d2, tpath[t])
                       THEN "orphaned" ELSE pcs[t]]

TickAdmit ==
    /\ clock < MaxClock
    /\ clock' = clock + 1
    /\ UNCHANGED <<apivars, redirectvars, extractvars, pollvars, drivervars, sleepvars>>
    /\ UNCHANGED <<disk, video_queue, played_videos, constructed, pc, tpath,
                   op, ret, chosen, skipped, rmFailed, nadmit, usedNames, taken>>

\* lines 53-72: the name is chosen, the request answers 200, the file is opened
AdmitOpen(t) ==
    /\ pc[t] = "idle"
    /\ nadmit < MaxAdmits
    /\ LET video_path == ChooseName(clock)
       IN /\ disk' = OpenWB(disk, video_path, clock)
          /\ tpath' = [tpath EXCEPT ![t] = video_path]
          /\ usedNames' = usedNames \cup {video_path}
    /\ pc' = [pc EXCEPT ![t] = "writing"]
    /\ UNCHANGED <<apivars, redirectvars, extractvars, pollvars, drivervars, sleepvars>>
    /\ UNCHANGED <<clock, video_queue, played_videos, constructed, op, ret,
                   chosen, skipped, rmFailed, nadmit, taken>>

\* lines 53-66 and 97-105: the name is chosen and the request raises
AdmitRequestFails(t) ==
    /\ pc[t] = "idle"
    /\ nadmit < MaxAdmits
    /\ \E lk \in SUBSET {ChooseName(clock)} :
        LET video_path == ChooseName(clock)
            r == ExceptCleanup(video_queue, played_videos, disk, video_path, lk)
        IN /\ disk' = r.disk
           /\ rmFailed' = r.failed
           /\ pc' = Orphan(pc, r.disk)
           /\ usedNames' = usedNames \cup {video_path}
           /\ chosen' = <<video_path>>
    /\ op' = "cache_video"
    /\ ret' = <<>>
    /\ skipped' = <<>>
    /\ UNCHANGED <<apivars, redirectvars, extractvars, pollvars, drivervars, sleepvars>>
    /\ UNCHANGED <<clock, video_queue, played_videos, constructed, tpath,
                   nadmit, taken>>

\* lines 73-76: a chunk is written to the open file
AdmitWrite(t) ==
    /\ pc[t] = "writing"
    /\ disk' = WriteChunk(disk, tpath[t], clock)
    /\ UNCHANGED <<apivars, redirectvars, extractvars, pollvars, drivervars, sleepvars>>
    /\ UNCHANGED <<clock, video_queue, played_videos, constructed, pc, tpath,
                   op, ret, chosen, skipped, rmFailed, nadmit, usedNames, taken>>

\* lines 73-76 and 97-114: the stream raises
AdmitRaise(t) ==
    /\ pc[t] \in {"writing", "orphaned"}
    /\ \E lk \in SUBSET {tpath[t]} :
        LET r == ExceptCleanup(video_queue, played_videos, disk, tpath[t], lk)
        IN /\ disk' = r.disk
           /\ rmFailed' = r.failed
           /\ pc' = [Orphan(pc, r.disk) EXCEPT ![t] = "idle"]
    /\ tpath' = [tpath EXCEPT ![t] = 0]
    /\ op' = "cache_video"
    /\ ret' = <<>>
    /\ chosen' = <<tpath[t]>>
    /\ skipped' = <<>>
    /\ UNCHANGED <<apivars, redirectvars, extractvars, pollvars, drivervars, sleepvars>>
    /\ UNCHANGED <<clock, video_queue, played_videos, constructed, nadmit,
                   usedNames, taken>>

\* lines 84-96: the stream has ended; check, append and eviction pass
AdmitFinish(t) ==
    /\ pc[t] \in {"writing", "orphaned"}
    /\ \E lk \in SUBSET Removable(tpath[t]) :
        LET r == VerifyAndAppend(video_queue, played_videos, disk, tpath[t],
                                 nadmit + 1, lk)
        IN /\ video_queue' = r.vq
           /\ played_videos' = r.pv
           /\ disk' = r.disk
           /\ ret' = r.ret
           /\ rmFailed' = r.failed
           /\ nadmit' = IF r.appended THEN nadmit + 1 ELSE nadmit
           /\ taken' = IF r.appended THEN taken \ {tpath[t]} ELSE taken
           /\ pc' = [Orphan(pc, r.disk) EXCEPT ![t] = "idle"]
    /\ tpath' = [tpath EXCEPT ![t] = 0]
    /\ op' = "cache_video"
    /\ chosen' = <<tpath[t]>>
    /\ skipped' = <<>>
    /\ UNCHANGED <<apivars, redirectvars, extractvars, pollvars, drivervars, sleepvars>>
    /\ UNCHANGED <<clock, constructed, usedNames>>

\* _play_next_video on the window's thread: get_next_video
TakeNext ==
    /\ pc["ui"] = "idle"
    /\ \E lk \in SUBSET Stale :
        LET r == get_next_video(video_queue, played_videos, disk, lk)
        IN /\ video_queue' = r.vq
           /\ played_videos' = r.pv
           /\ disk' = r.disk
           /\ ret' = r.ret
           /\ skipped' = r.skipped
           /\ rmFailed' = r.failed
           /\ taken' = taken \cup {r.ret[i] : i \in 1..Len(r.ret)}
           /\ pc' = Orphan(pc, r.disk)
    /\ op' = "get_next_video"
    /\ chosen' = <<>>
    /\ UNCHANGED <<apivars, redirectvars, extractvars, pollvars, drivervars, sleepvars>>
    /\ UNCHANGED <<clock, constructed, tpath, nadmit, usedNames>>

NextAdmit ==
    \/ TickAdmit
    \/ \E t \in Threads : AdmitOpen(t)
    \/ \E t \in Threads : AdmitRequestFails(t)
    \/ \E t \in Threads : AdmitWrite(t)
    \/ \E t \in Threads : AdmitRaise(t)
    \/ \E t \in Threads : AdmitFinish(t)
    \/ TakeNext

SpecAdmit == InitAdmit /\ [][NextAdmit]_vars

(* ========================= follow_redirects ============================ *)
\* The URLs of a redirect chain are numbered: 0 is the URL handed to
\* follow_redirects and k the URL named by the k-th Location header.  A chain
\* says what the network answers: the requests to the URLs 0..n-1 get the
\* redirect status code, the request to URL n gets the status final; the
\* redirect answer number noloc carries no Location header (0: all carry
\* one) and request number raiseAt raises (0: none raises).
max_redirects == 5
\* longest chain of redirects considered
MaxChain == 7

RedirectCodes == {301, 302, 303, 307, 308}
FinalCodes == {200, 304, 404}
Chains ==
    {c \in [n : 0..MaxChain, code : RedirectCodes, final : FinalCodes,
            noloc : 0..MaxChain, raiseAt : 0..(MaxChain + 1)] :
        c.noloc <= c.n /\ c.raiseAt <= c.n + 1}

\* the store and the other components while one component is studied alone
CacheIdle ==
    /\ clock = NPre + 1
    /\ disk = EmptyDisk
    /\ video_queue = <<>>
    /\ played_videos = <<>>
    /\ constructed = TRUE
    /\ pc = NoThreads
    /\ tpath = NoPaths
    /\ op = "__init__"
    /\ ret = <<>> /\ chosen = <<>> /\ skipped = <<>> /\ rmFailed = {}
    /\ nadmit = 0
    /\ usedNames = {}
    /\ taken = {}

\* session.get(k, allow_redirects=False): <<>> when the request raises,
\* else the response
SessionGet(c, k) ==
    IF c.raiseAt = k + 1 THEN <<>>
    ELSE <<[url |-> k,
            status_code |-> IF k < c.n THEN c.code ELSE c.final,
            Location |-> IF k < c.n /\ c.noloc # k + 1 THEN <<k + 1>> ELSE <<>>]>>

\* the except branch: the original url is returned, nothing is raised
ExceptReturnLast(url, last) == [ret |-> last, escaped |-> FALSE]
ExceptReturn(url, last) == [ret |-> url, escaped |-> FALSE]

\* final_url = response.url if response.status_code < 400 else url
FinalUrlOnly200(response, url) ==
    IF response.status_code = 200 THEN response.url ELSE url
FinalUrl(response, url) ==
    IF response.status_code < 400 THEN response.url ELSE url

\* the while loop of follow_redirects
RECURSIVE RedirectLoop(_, _, _)
RedirectLoop(c, response, redirect_count) ==
    IF /\ response.status_code \in RedirectCodes
       /\ redirect_count < max_redirects
       /\ response.Location # <<>>
    THEN LET r == SessionGet(c, response.Location[1])
         IN IF r = <<>>
            THEN [raised |-> TRUE, response |-> response,
                  redirect_count |-> redirect_count]
            ELSE RedirectLoop(c, r[1], redirect_count + 1)
    ELSE [raised |-> FALSE, response |-> response,
          redirect_count |-> redirect_count]

\* follow_redirects(0) when the network answers as c says: the value
\* returned, the redirects followed, whether a request raised
follow_redirects(c) ==
    LET first == SessionGet(c, 0)
    IN IF first = <<>>
       THEN [out |-> ExceptReturn(0, 0), followed |-> 0, raised |-> TRUE]
       ELSE LET l == RedirectLoop(c, first[1], 0)
            IN IF l.raised
               THEN [out |-> ExceptReturn(0, l.response.url),
                     followed |-> l.redirect_count, raised |-> TRUE]
               ELSE [out |-> [ret |-> FinalUrl(l.response, 0), escaped |-> FALSE],
                     followed |-> l.redirect_count, raised |-> FALSE]

InitRedirect ==
    /\ CacheIdle /\ ServiceIdle /\ ExtractIdle /\ PollIdle
    /\ DriverIdle /\ SleepIdle
    /\ chain \in {<<c>> : c \in Chains}
    /\ rret = <<>>

FollowRedirects ==
    /\ chain # <<>>
    /\ rret = <<>>
    /\ rret' = <<follow_redirects(chain[1])>>
    /\ UNCHANGED <<chain, cachevars, apivars, extractvars, pollvars, drivervars, sleepvars>>

NextRedirect == FollowRedirects

SpecRedirect == InitRedirect /\ [][NextRedirect]_vars

(* ========================= _extract_video_url ========================== *)
\* A parsed body is a string, null, a mapping (a function from some of the
\* key names to values) or a sequence; kind says which and val holds it.
\* most keys a mapping of a body holds
MaxKeys == 2

KeyNames == {"data", "url", "video_url", "link", "src", "video"}
KeyOrderUrlFirst == <<"url", "data", "video_url", "link", "src", "video">>
\* for key in ["data", "url", "video_url", "link", "src", "video"]
KeyOrder == <<"data", "url", "video_url", "link", "src", "video">>

JStr(s) == [kind |-> "str", val |-> s]
JNull == [kind |-> "null", val |-> ""]
JDict(f) == [kind |-> "dict", val |-> f]
JList(l) == [kind |-> "list", val |-> l]

\* str(value)
Str(v) ==
    CASE v.kind = "str" -> v.val
      [] v.kind = "null" -> "None"
      [] v.kind = "dict" -> "{..}"
      [] v.kind = "list" -> "[..]"
\* s.strip(): of the strings of the model only " " has blanks to lose
Strip(s) == IF s = " " THEN "" ELSE s
\* key in s, for a string s: whether the key name occurs in the text
KeyInString(key, s) == key = "video" /\ s = "video.mp4"

NoneFound == [raised |-> FALSE, ret |-> <<>>]
Found(s) == [raised |-> FALSE, ret |-> <<s>>]
TypeError == [raised |-> TRUE, ret |-> <<>>]

\* the loop over the keys when data is a list: video_data = data[0]
RECURSIVE ProbeFirstElement(_, _)
ProbeFirstElement(video_data, i) ==
    IF i > Len(KeyOrder) THEN NoneFound
    ELSE LET key == KeyOrder[i]
         IN CASE video_data.kind = "dict" ->
                   IF key \in DOMAIN video_data.val
                   THEN LET video_url == Strip(Str(video_data.val[key]))
                        IN IF video_url # "" THEN Found(video_url)
                           ELSE ProbeFirstElement(video_data, i + 1)
                   ELSE ProbeFirstElement(video_data, i + 1)
              [] video_data.kind = "str" ->
                   \* a string is indexed by a key name: TypeError
                   IF KeyInString(key, video_data.val) THEN TypeError
                   ELSE ProbeFirstElement(video_data, i + 1)
              [] video_data.kind = "list" ->
                   \* no sequence of the model has a key name as an element
                   ProbeFirstElement(video_data, i + 1)
              [] video_data.kind = "null" -> TypeError

RECURSIVE _extract_video_url(_), ProbeMapping(_, _)
\* the loop over the keys when data is a dict
ProbeMapping(d, i) ==
    IF i > Len(KeyOrder) THEN NoneFound
    ELSE LET key == KeyOrder[i]
         IN IF key \in DOMAIN d.val
            THEN IF d.val[key].kind \in {"dict", "list"}
                 THEN LET nested_url == _extract_video_url(d.val[key])
                      IN IF nested_url.raised \/ nested_url.ret # <<>>
                         THEN nested_url
                         ELSE ProbeMapping(d, i + 1)
                 ELSE LET video_url == Strip(Str(d.val[key]))
                      IN IF video_url # "" THEN Found(video_url)
                         ELSE ProbeMapping(d, i + 1)
            ELSE ProbeMapping(d, i + 1)

_extract_video_url(body) ==
    IF body.kind = "list" /\ Len(body.val) > 0
    THEN ProbeFirstElement(body.val[1], 1)
    ELSE IF body.kind = "dict" THEN ProbeMapping(body, 1)
    ELSE NoneFound

\* the bodies considered
Leaves == {JStr("X"), JStr("Y"), JStr(""), JStr(" "), JStr("video.mp4"), JNull}
DictsOver(n, vals) ==
    {JDict(f) : f \in UNION {[ks -> vals] : ks \in {k \in SUBSET KeyNames :
                                                      Cardinality(k) <= n}}}
Nested ==
    DictsOver(1, {JStr("X"), JStr("")})
        \cup {JList(<<>>), JList(<<JDict([url |-> JStr("X")])>>)}
Values == Leaves \cup Nested
Bodies ==
    DictsOver(MaxKeys, Values)
        \cup {JList(<<>>)}
        \cup {JList(<<v>>) : v \in Leaves \cup DictsOver(1, Values)}
        \cup Leaves

InitExtract ==
    /\ CacheIdle /\ ServiceIdle /\ RedirectIdle /\ PollIdle
    /\ DriverIdle /\ SleepIdle
    /\ data \in {<<b>> : b \in Bodies}
    /\ xret = <<>>
    /\ text = <<>> /\ tret = <<>>

ExtractVideoUrl ==
    /\ data # <<>>
    /\ xret = <<>>
    /\ xret' = <<_extract_video_url(data[1])>>
    /\ UNCHANGED <<data, text, tret, cachevars, apivars, redirectvars, pollvars,
                   drivervars, sleepvars>>

NextExtract == ExtractVideoUrl

SpecExtract == InitExtract /\ [][NextExtract]_vars

(* ======================== _extract_url_from_text ======================= *)
\* The text of a body that is not JSON is a sequence of tokens: the scheme
\* "http://", a character "a" of a host or path, a file extension, a double
\* quote, a single quote or a blank.  A string cut out of a text is the
\* sequence of its tokens; the name of an extension, as captured by the
\* group of the first pattern, is the token without its dot.
\* longest text considered
MaxText == 4

Scheme == "http://"
Extensions == {".mp4", ".mov", ".avi", ".mkv"}
ExtensionName(e) ==
    CASE e = ".mp4" -> "mp4" [] e = ".mov" -> "mov"
      [] e = ".avi" -> "avi" [] e = ".mkv" -> "mkv"
Tokens == {Scheme, "a", ".mp4", ".mov", "\"", "'", " "}

\* the three patterns: after https?:// comes [^...]+? over the tokens not
\* excluded, then the tail; the tail of the first pattern is consumed and
\* captured by the one group of the pattern, the tails of the others are
\* lookaheads and the patterns have no group
url_patterns ==
    << [excluded |-> {"\"", "'", " "}, tail |-> Extensions,
        consumed |-> TRUE, groups |-> 1],
       [excluded |-> {"\""}, tail |-> {"\""}, consumed |-> FALSE, groups |-> 0],
       [excluded |-> {"'"}, tail |-> {"'"}, consumed |-> FALSE, groups |-> 0] >>

\* the lazy repetition +? has taken the tokens before j: the position of the
\* tail of the match, 0 if there is no match
RECURSIVE LazyTail(_, _, _)
LazyTail(pattern, t, j) ==
    IF j > Len(t) THEN 0
    ELSE IF t[j] \in pattern.tail THEN j
    ELSE IF t[j] \in pattern.excluded THEN 0
    ELSE LazyTail(pattern, t, j + 1)

\* the position of the tail of the match of pattern that begins at i, 0 if
\* none begins there
MatchAt(pattern, t, i) ==
    IF t[i] = Scheme /\ i + 1 <= Len(t) /\ t[i + 1] \notin pattern.excluded
    THEN LazyTail(pattern, t, i + 2)
    ELSE 0

\* what re.findall lists for the match from i to the tail at j: the group if
\* the pattern has one, else the whole match (a string in both cases)
Listed(pattern, t, i, j) ==
    IF pattern.groups = 1 THEN <<ExtensionName(t[j])>>
    ELSE SubSeq(t, i, IF pattern.consumed THEN j ELSE j - 1)

\* re.findall(pattern, text): the matches from left to right, not overlapping
RECURSIVE findall(_, _, _)
findall(pattern, t, i) ==
    IF i > Len(t) THEN <<>>
    ELSE LET j == MatchAt(pattern, t, i)
         IN IF j = 0 THEN findall(pattern, t, i + 1)
            ELSE <<Listed(pattern, t, i, j)>>
                     \o findall(pattern, t, IF pattern.consumed THEN j + 1 ELSE j)

\* the loop over url_patterns; matches[0] is never a tuple, no pattern
\* having two groups, so that the else branch returns it
RECURSIVE TryPatterns(_, _)
TryPatterns(t, k) ==
    IF k > Len(url_patterns) THEN NoneFound
    ELSE LET matches == findall(url_patterns[k], t, 1)
         IN IF matches # <<>> THEN Found(matches[1])
            ELSE TryPatterns(t, k + 1)

_extract_url_from_text(t) == TryPatterns(t, 1)

Texts == UNION {[1..n -> Tokens] : n \in 0..MaxText}

InitText ==
    /\ CacheIdle /\ ServiceIdle /\ RedirectIdle /\ PollIdle
    /\ DriverIdle /\ SleepIdle
    /\ data = <<>> /\ xret = <<>>
    /\ text \in {<<t>> : t \in Texts}
    /\ tret = <<>>

ExtractUrlFromText ==
    /\ text # <<>>
    /\ tret = <<>>
    /\ tret' = <<_extract_url_from_text(text[1])>>
    /\ UNCHANGED <<data, xret, text, cachevars, apivars, redirectvars, pollvars,
                   drivervars, sleepvars>>

NextText == ExtractUrlFromText

SpecText == InitText /\ [][NextText]_vars

(* ============================ get_video_link =========================== *)
\* get_video_link is called by the background filler (cache_videos) and by
\* the window's thread (_load_new_video_from_api) on the one APIService.
\* A call is followed from one access to the shared fields to the next:
\* apc is "head" at the test of the while loop, "waiting" while the request
\* is out, "counting_try"/"counting_except" once fail_count has been read by
\* a += 1 of the try block / of an except clause and not yet written back,
\* "check" at the threshold test, "switching" inside _switch_api between the
\* new index and the reset of fail_count, "sleeping" in time.sleep ("head"
\* before the first request),
\* "resolving" once a URL has been extracted.
max_retries == 3
switch_threshold == 2
\* len(self.api_urls)
NApi == 2
\* calls of get_video_link followed
MaxCalls == 2

\* what a 200 response may carry, and what the extracted URL redirects to
SampleBodies == {JDict([data |-> JDict([url |-> JStr("X")]), url |-> JStr("Y")]),
                 JDict([url |-> JStr("")]),
                 JList(<<JNull>>)}
SampleChains == {c \in Chains : c.n <= 1 /\ c.code = 302 /\ c.final = 200
                                /\ c.noloc = 0 /\ c.raiseAt = 0}

\* (self.current_api_index + 1) % len(self.api_urls)
NextIndexNoWrap(i, n) == i + 1
NextIndex(i, n) == (i + 1) % n

\* retries after the except Exception clause
RetriesUnchanged(r) == r
RetriesAfterUnknown(r) == r + 1

\* the successful return: fail_count, and the value returned
ReturnKeepCount(fc, final) == [fail_count |-> fc, url |-> <<final>>]
ReturnFinal(fc, final) == [fail_count |-> 0, url |-> <<final>>]

InitAcquire ==
    /\ CacheIdle /\ ServiceIdle /\ RedirectIdle /\ ExtractIdle /\ PollIdle
    /\ DriverIdle /\ SleepIdle

\* get_video_link is entered: retries = 0
StartCall(t) ==
    /\ apc[t] = "idle"
    /\ ncalls < MaxCalls
    /\ ncalls' = ncalls + 1
    /\ retries' = [retries EXCEPT ![t] = 0]
    /\ nreq' = [nreq EXCEPT ![t] = 0]
    /\ aret' = [aret EXCEPT ![t] = [done |-> FALSE, url |-> <<>>]]
    /\ apc' = [apc EXCEPT ![t] = "head"]
    /\ UNCHANGED <<current_api_index, fail_count, loaded, cand, ncross,
                   nswitch, answer>>
    /\ UNCHANGED <<cachevars, redirectvars, extractvars, pollvars, drivervars, sleepvars>>

\* (time.sleep over;) while retries < self.max_retries:
\* requests.get(self.api_urls[self.current_api_index])
SendRequest(t) ==
    /\ apc[t] \in {"head", "sleeping"}
    /\ retries[t] < max_retries
    /\ nreq[t] <= max_retries
    /\ current_api_index < NApi
    /\ nreq' = [nreq EXCEPT ![t] = @ + 1]
    /\ apc' = [apc EXCEPT ![t] = "waiting"]
    /\ answer' = [answer EXCEPT ![t] = ""]
    /\ UNCHANGED <<current_api_index, fail_count, retries, loaded, aret, cand,
                   ncalls, ncross, nswitch>>
    /\ UNCHANGED <<cachevars, redirectvars, extractvars, pollvars, drivervars, sleepvars>>

\* the loop ends with retries = max_retries: return None
ReturnNone(t) ==
    /\ apc[t] \in {"head", "sleeping"}
    /\ retries[t] >= max_retries
    /\ aret' = [aret EXCEPT ![t] = [done |-> TRUE, url |-> <<>>]]
    /\ apc' = [apc EXCEPT ![t] = "idle"]
    /\ answer' = [answer EXCEPT ![t] = ""]
    /\ retries' = [retries EXCEPT ![t] = 0]
    /\ UNCHANGED <<current_api_index, fail_count, loaded, nreq, cand, ncalls,
                   ncross, nswitch>>
    /\ UNCHANGED <<cachevars, redirectvars, extractvars, pollvars, drivervars, sleepvars>>

\* a counted failure has happened: fail_count += 1 reads fail_count
CountFailure(t, where, kind) ==
    /\ answer' = [answer EXCEPT ![t] = kind]
    /\ loaded' = [loaded EXCEPT ![t] = fail_count]
    /\ apc' = [apc EXCEPT ![t] = where]
    /\ UNCHANGED <<current_api_index, fail_count, retries, nreq, aret, cand,
                   ncalls, ncross, nswitch>>

\* an error that is neither a ConnectionError nor a Timeout, counted like
\* one of them
UnknownErrorCounted(t, kind) == CountFailure(t, "counting_except", kind)
\* except Exception: retries += 1 only; then time.sleep(1)
UnknownError(t, kind) ==
    /\ retries' = [retries EXCEPT ![t] = RetriesAfterUnknown(@)]
    /\ apc' = [apc EXCEPT ![t] = "sleeping"]
    /\ answer' = [answer EXCEPT ![t] = kind]
    /\ UNCHANGED <<current_api_index, fail_count, loaded, nreq, aret, cand,
                   ncalls, ncross, nswitch>>

\* status 200: the body is parsed and searched for a URL
Receive200(t) ==
    /\ apc[t] = "waiting"
    /\ \E body \in SampleBodies :
        LET video_url == _extract_video_url(body)
        IN IF video_url.raised
           THEN \* the TypeError reaches the except Exception clause
                UnknownError(t, "unprobeable")
           ELSE IF video_url.ret # <<>>
           THEN /\ \E c \in SampleChains : cand' = [cand EXCEPT ![t] = <<c>>]
                /\ apc' = [apc EXCEPT ![t] = "resolving"]
                /\ answer' = [answer EXCEPT ![t] = "url"]
                /\ UNCHANGED <<current_api_index, fail_count, retries, loaded,
                               nreq, aret, ncalls, ncross, nswitch>>
           ELSE CountFailure(t, "counting_try", "no_url")
    /\ UNCHANGED <<cachevars, redirectvars, extractvars, pollvars, drivervars, sleepvars>>

\* a status other than 200
ReceiveNon200(t) ==
    /\ apc[t] = "waiting"
    /\ CountFailure(t, "counting_try", "non200")
    /\ UNCHANGED <<cachevars, redirectvars, extractvars, pollvars, drivervars, sleepvars>>

\* requests.exceptions.ConnectionError or requests.exceptions.Timeout
ReceiveNetworkError(t) ==
    /\ apc[t] = "waiting"
    /\ \E kind \in {"connection_error", "timeout"} :
           CountFailure(t, "counting_except", kind)
    /\ UNCHANGED <<cachevars, redirectvars, extractvars, pollvars, drivervars, sleepvars>>

\* any other exception of requests.get
ReceiveOtherError(t) ==
    /\ apc[t] = "waiting"
    /\ UnknownError(t, "other_error")
    /\ UNCHANGED <<cachevars, redirectvars, extractvars, pollvars, drivervars, sleepvars>>

\* fail_count += 1 writes back; retries += 1; an except clause then sleeps,
\* the try block goes on to the threshold test
StoreFailure(t) ==
    /\ apc[t] \in {"counting_try", "counting_except"}
    /\ fail_count' = loaded[t] + 1
    /\ retries' = [retries EXCEPT ![t] = @ + 1]
    /\ ncross' = IF fail_count < switch_threshold /\ fail_count' >= switch_threshold
                 THEN ncross + 1 ELSE ncross
    /\ apc' = [apc EXCEPT ![t] = IF @ = "counting_try" THEN "check" ELSE "sleeping"]
    /\ loaded' = [loaded EXCEPT ![t] = 0]
    /\ UNCHANGED <<current_api_index, nreq, aret, cand, ncalls, nswitch, answer>>
    /\ UNCHANGED <<cachevars, redirectvars, extractvars, pollvars, drivervars, sleepvars>>

\* if self.fail_count >= self.switch_threshold: self._switch_api(), up to
\* and including the assignment of the new index
CheckSwitch(t) ==
    /\ apc[t] = "check"
    /\ IF fail_count >= switch_threshold /\ NApi > 1
       THEN /\ current_api_index' = NextIndex(current_api_index, NApi)
            /\ nswitch' = nswitch + 1
            /\ apc' = [apc EXCEPT ![t] = "switching"]
       ELSE /\ apc' = [apc EXCEPT ![t] = "sleeping"]
            /\ UNCHANGED <<current_api_index, nswitch>>
    /\ UNCHANGED <<fail_count, retries, loaded, nreq, aret, cand, ncalls, ncross,
                   answer>>
    /\ UNCHANGED <<cachevars, redirectvars, extractvars, pollvars, drivervars, sleepvars>>

\* _switch_api after its logger.info: self.fail_count = 0; then the sleep
ResetAfterSwitch(t) ==
    /\ apc[t] = "switching"
    /\ fail_count' = 0
    /\ apc' = [apc EXCEPT ![t] = "sleeping"]
    /\ UNCHANGED <<current_api_index, retries, loaded, nreq, aret, cand, ncalls,
                   ncross, nswitch, answer>>
    /\ UNCHANGED <<cachevars, redirectvars, extractvars, pollvars, drivervars, sleepvars>>

\* final_url = self.follow_redirects(video_url); self.fail_count = 0;
\* return final_url
ReturnUrl(t) ==
    /\ apc[t] = "resolving"
    /\ LET r == ReturnFinal(fail_count, follow_redirects(cand[t][1]).out.ret)
       IN /\ fail_count' = r.fail_count
          /\ aret' = [aret EXCEPT ![t] = [done |-> TRUE, url |-> r.url]]
    /\ apc' = [apc EXCEPT ![t] = "idle"]
    /\ retries' = [retries EXCEPT ![t] = 0]
    /\ cand' = [cand EXCEPT ![t] = <<>>]
    /\ answer' = [answer EXCEPT ![t] = ""]
    /\ UNCHANGED <<current_api_index, loaded, nreq, ncalls, ncross, nswitch>>
    /\ UNCHANGED <<cachevars, redirectvars, extractvars, pollvars, drivervars, sleepvars>>

\* what a thread inside get_video_link does next
CallStep(t) ==
    \/ SendRequest(t)
    \/ ReturnNone(t)
    \/ Receive200(t)
    \/ ReceiveNon200(t)
    \/ ReceiveNetworkError(t)
    \/ ReceiveOtherError(t)
    \/ StoreFailure(t)
    \/ CheckSwitch(t)
    \/ ResetAfterSwitch(t)
    \/ ReturnUrl(t)

NextAcquire ==
    \/ \E t \in Threads : StartCall(t)
    \/ \E t \in Threads : SendRequest(t)
    \/ \E t \in Threads : ReturnNone(t)
    \/ \E t \in Threads : Receive200(t)
    \/ \E t \in Threads : ReceiveNon200(t)
    \/ \E t \in Threads : ReceiveNetworkError(t)
    \/ \E t \in Threads : ReceiveOtherError(t)
    \/ \E t \in Threads : StoreFailure(t)
    \/ \E t \in Threads : CheckSwitch(t)
    \/ \E t \in Threads : ResetAfterSwitch(t)
    \/ \E t \in Threads : ReturnUrl(t)

SpecAcquire == InitAcquire /\ [][NextAcquire]_vars

\* One thread alone calling get_video_link, call after call.  Every request
\* is answered or times out (timeout=10) and every sleep ends: the thread
\* inside get_video_link keeps taking steps.
NextAcquireAlone ==
    \/ StartCall("filler")
    \/ CallStep("filler")

SpecAcquireFair ==
    InitAcquire /\ [][NextAcquireAlone]_vars /\ WF_vars(CallStep("filler"))

(* ================== the store as other threads see it ================== *)
\* The progress thread (update_progress) reads get_cache_count every half
\* second while the window's thread runs get_next_video and the filler runs
\* cache_video; the store has no lock.  get_next_video is followed from its
\* popleft to its append (pc of "ui" is "popped" in between, "scan" after a
\* discarded record), cache_video from its append to its clean_old_cache
\* (pc of "filler" is "appended" in between).

\* len(self.video_queue) + len(self.played_videos)
get_cache_count(vq, pv) == Len(vq) + Len(pv)

InitPoll ==
    /\ CacheIdle /\ ServiceIdle /\ RedirectIdle /\ ExtractIdle /\ PollIdle
    /\ DriverIdle /\ SleepIdle

\* cache_video on the filler thread, up to self.video_queue.append
PollAppend ==
    /\ pc["filler"] = "idle"
    /\ nadmit < MaxAdmits
    /\ LET p == ChooseName(clock)
           d == Download(disk, p, clock, "ok")
       IN /\ IsValid(d, p)
          /\ disk' = d
          /\ video_queue' = DequeAppend(video_queue, Entry(p, nadmit + 1))
          /\ tpath' = [tpath EXCEPT !["filler"] = p]
          /\ chosen' = <<p>>
    /\ nadmit' = nadmit + 1
    /\ pc' = [pc EXCEPT !["filler"] = "appended"]
    /\ op' = "append"
    /\ ret' = <<>> /\ skipped' = <<>> /\ rmFailed' = {}
    /\ UNCHANGED <<clock, played_videos, constructed, usedNames, taken>>
    /\ UNCHANGED <<apivars, redirectvars, extractvars, pollvars, drivervars, sleepvars>>

\* cache_video on the filler thread: self.clean_old_cache(); return video_path
PollClean ==
    /\ pc["filler"] = "appended"
    /\ \E lk \in SUBSET Removable(tpath["filler"]) :
        LET c == clean_old_cache(video_queue, played_videos, disk, lk)
        IN /\ video_queue' = c.vq
           /\ played_videos' = c.pv
           /\ disk' = c.disk
           /\ rmFailed' = c.failed
    /\ pc' = [pc EXCEPT !["filler"] = "idle"]
    /\ tpath' = [tpath EXCEPT !["filler"] = 0]
    /\ op' = "cache_video"
    /\ ret' = <<tpath["filler"]>> /\ chosen' = <<tpath["filler"]>> /\ skipped' = <<>>
    /\ UNCHANGED <<clock, constructed, nadmit, usedNames, taken>>
    /\ UNCHANGED <<apivars, redirectvars, extractvars, pollvars, drivervars, sleepvars>>

\* get_next_video on the window's thread: video_path = popleft()
PollPop ==
    /\ pc["ui"] \in {"idle", "scan"}
    /\ video_queue # <<>>
    /\ held' = <<Head(video_queue)>>
    /\ video_queue' = Tail(video_queue)
    /\ pc' = [pc EXCEPT !["ui"] = "popped"]
    /\ op' = "popleft"
    /\ ret' = <<>> /\ chosen' = <<>> /\ skipped' = <<>> /\ rmFailed' = {}
    /\ UNCHANGED <<clock, disk, played_videos, constructed, tpath, nadmit,
                   usedNames, taken, observed, need_to_clean, evictFailed>>
    /\ UNCHANGED <<apivars, redirectvars, extractvars, drivervars, sleepvars>>

\* get_next_video: the record popped is checked, then appended to
\* played_videos and returned, or discarded (its empty file removed)
PollCheck ==
    /\ pc["ui"] = "popped"
    /\ LET p == held[1].path
       IN IF IsValid(disk, p)
          THEN /\ played_videos' = DequeAppend(played_videos, held[1])
               /\ ret' = <<p>>
               /\ pc' = [pc EXCEPT !["ui"] = "idle"]
               /\ rmFailed' = {}
               /\ UNCHANGED disk
          ELSE /\ \E lk \in SUBSET {p} :
                    LET r == RemoveFile(disk, p, lk)
                    IN disk' = r.disk /\ rmFailed' = r.failed
               /\ ret' = <<>>
               /\ pc' = [pc EXCEPT !["ui"] = "scan"]
               /\ UNCHANGED played_videos
    /\ held' = <<>>
    /\ op' = "checked"
    /\ chosen' = <<>> /\ skipped' = <<>>
    /\ UNCHANGED <<clock, video_queue, constructed, tpath, nadmit, usedNames,
                   taken, observed, need_to_clean, evictFailed>>
    /\ UNCHANGED <<apivars, redirectvars, extractvars, drivervars, sleepvars>>

\* get_next_video: the queue is empty after discarded records: return None
PollNone ==
    /\ pc["ui"] = "scan"
    /\ video_queue = <<>>
    /\ pc' = [pc EXCEPT !["ui"] = "idle"]
    /\ op' = "get_next_video"
    /\ ret' = <<>> /\ chosen' = <<>> /\ skipped' = <<>> /\ rmFailed' = {}
    /\ UNCHANGED <<clock, disk, video_queue, played_videos, constructed, tpath,
                   nadmit, usedNames, taken>>
    /\ UNCHANGED <<apivars, redirectvars, extractvars, pollvars, drivervars, sleepvars>>

\* update_progress: cache_count = self.cache_manager.get_cache_count().
\* Next to the count read, the count of a store whose calls were atomic is
\* kept: a valid record that get_next_video holds is still a tracked one.
Observe ==
    /\ observed' =
         <<[cache_count |-> get_cache_count(video_queue, played_videos),
            tracked |-> Len(video_queue) + Len(played_videos)
                          + (IF held # <<>> /\ IsValid(disk, held[1].path)
                             THEN 1 ELSE 0),
            during |-> pc]>>
    /\ op' = "get_cache_count"
    /\ ret' = <<>> /\ chosen' = <<>> /\ skipped' = <<>> /\ rmFailed' = {}
    /\ UNCHANGED <<clock, disk, video_queue, played_videos, constructed, pc,
                   tpath, nadmit, usedNames, taken, held, need_to_clean,
                   evictFailed>>
    /\ UNCHANGED <<apivars, redirectvars, extractvars, drivervars, sleepvars>>

NextPoll ==
    \/ TickAdmit
    \/ ExternalDelete
    \/ PollAppend
    \/ PollClean
    \/ PollPop
    \/ PollCheck
    \/ PollNone
    \/ Observe

SpecPoll == InitPoll /\ [][NextPoll]_vars

(* =================== the eviction pass, loop by loop =================== *)
\* clean_old_cache runs on the filler thread, inside cache_video, while the
\* window's thread runs get_next_video or _clean_cache; no lock is taken
\* anywhere.  The pass is followed from the computation of need_to_clean
\* through the iterations of its two loops (pc of "filler" is "played_loop",
\* then "unplayed_loop"); _clean_cache through the iterations of its own
\* two loops (pc of "ui" is "clearing_unplayed", then "clearing_played").

InitEvict ==
    /\ CacheIdle /\ ServiceIdle /\ RedirectIdle /\ ExtractIdle /\ PollIdle
    /\ DriverIdle /\ SleepIdle

\* cache_video returns video_path after clean_old_cache
EvictReturn ==
    /\ pc' = [pc EXCEPT !["filler"] = "idle"]
    /\ tpath' = [tpath EXCEPT !["filler"] = 0]
    /\ op' = "cache_video"
    /\ ret' = <<tpath["filler"]>> /\ chosen' = <<tpath["filler"]>>
    /\ need_to_clean' = 0
    /\ evictFailed' = {}

\* total_cache = len(video_queue) + len(played_videos); if it is above
\* max_cache, need_to_clean = total_cache - max_cache
EvictBegin ==
    /\ pc["filler"] = "appended"
    /\ LET total_cache == Len(video_queue) + Len(played_videos)
       IN IF total_cache > max_cache
          THEN /\ need_to_clean' = total_cache - max_cache
               /\ pc' = [pc EXCEPT !["filler"] = "played_loop"]
               /\ op' = "need_to_clean"
               /\ ret' = <<>> /\ chosen' = <<>>
               /\ UNCHANGED <<tpath, evictFailed>>
          ELSE EvictReturn
    /\ skipped' = <<>> /\ rmFailed' = {}
    /\ UNCHANGED <<clock, disk, video_queue, played_videos, constructed, nadmit,
                   usedNames, taken, held, observed>>
    /\ UNCHANGED <<apivars, redirectvars, extractvars, drivervars, sleepvars>>

\* One iteration of a loop of clean_old_cache on the record e it popped:
\* the file is removed if it exists and need_to_clean is decremented, unless
\* os.remove raised
EvictRecord(e) ==
    \E lk \in SUBSET {e.path} :
        LET r == RemoveFile(disk, e.path, lk)
        IN /\ disk' = r.disk
           /\ rmFailed' = r.failed
           /\ evictFailed' = evictFailed \cup r.failed
           /\ need_to_clean' = IF r.failed = {} THEN need_to_clean - 1
                                                ELSE need_to_clean
           /\ op' = "evict"
           /\ ret' = <<>> /\ chosen' = <<e.path>> /\ skipped' = <<>>

\* while need_to_clean > 0 and self.played_videos: one test, one iteration
EvictPlayed ==
    /\ pc["filler"] = "played_loop"
    /\ IF need_to_clean > 0 /\ played_videos # <<>>
       THEN /\ played_videos' = Tail(played_videos)
            /\ EvictRecord(Head(played_videos))
            /\ UNCHANGED pc
       ELSE /\ pc' = [pc EXCEPT !["filler"] = "unplayed_loop"]
            /\ op' = "played_loop_end"
            /\ ret' = <<>> /\ chosen' = <<>> /\ skipped' = <<>> /\ rmFailed' = {}
            /\ UNCHANGED <<disk, played_videos, need_to_clean, evictFailed>>
    /\ UNCHANGED <<clock, video_queue, constructed, tpath, nadmit, usedNames,
                   taken, held, observed>>
    /\ UNCHANGED <<apivars, redirectvars, extractvars, drivervars, sleepvars>>

\* while need_to_clean > 0 and self.video_queue: one test, one iteration;
\* after the loop clean_old_cache and cache_video return
EvictUnplayed ==
    /\ pc["filler"] = "unplayed_loop"
    /\ IF need_to_clean > 0 /\ video_queue # <<>>
       THEN /\ video_queue' = Tail(video_queue)
            /\ EvictRecord(Head(video_queue))
            /\ UNCHANGED <<pc, tpath>>
       ELSE /\ EvictReturn
            /\ skipped' = <<>> /\ rmFailed' = {}
            /\ UNCHANGED <<disk, video_queue>>
    /\ UNCHANGED <<clock, played_videos, constructed, nadmit, usedNames, taken,
                   held, observed>>
    /\ UNCHANGED <<apivars, redirectvars, extractvars, drivervars, sleepvars>>

\* One iteration of a loop of _clean_cache on the record e it popped: the
\* file is removed if it exists; a raising os.remove ends _clean_cache in
\* its except clause
CleanCacheRecord(e, loop) ==
    \E lk \in SUBSET {e.path} :
        LET r == RemoveFile(disk, e.path, lk)
        IN /\ disk' = r.disk
           /\ rmFailed' = r.failed
           /\ pc' = [pc EXCEPT !["ui"] = IF r.failed = {} THEN loop ELSE "idle"]
           /\ op' = "clean_cache"
           /\ ret' = <<>> /\ chosen' = <<e.path>> /\ skipped' = <<>>

\* _clean_cache: while self.cache_manager.video_queue
CleanCacheUnplayed ==
    /\ pc["ui"] \in {"idle", "clearing_unplayed"}
    /\ IF video_queue # <<>>
       THEN /\ video_queue' = Tail(video_queue)
            /\ CleanCacheRecord(Head(video_queue), "clearing_unplayed")
       ELSE /\ pc' = [pc EXCEPT !["ui"] = "clearing_played"]
            /\ op' = "clean_cache"
            /\ ret' = <<>> /\ chosen' = <<>> /\ skipped' = <<>> /\ rmFailed' = {}
            /\ UNCHANGED <<disk, video_queue>>
    /\ UNCHANGED <<clock, played_videos, constructed, tpath, nadmit, usedNames,
                   taken>>
    /\ UNCHANGED <<apivars, redirectvars, extractvars, pollvars, drivervars, sleepvars>>

\* _clean_cache: while self.cache_manager.played_videos
CleanCachePlayed ==
    /\ pc["ui"] = "clearing_played"
    /\ IF played_videos # <<>>
       THEN /\ played_videos' = Tail(played_videos)
            /\ CleanCacheRecord(Head(played_videos), "clearing_played")
       ELSE /\ pc' = [pc EXCEPT !["ui"] = "idle"]
            /\ op' = "clean_cache"
            /\ ret' = <<>> /\ chosen' = <<>> /\ skipped' = <<>> /\ rmFailed' = {}
            /\ UNCHANGED <<disk, played_videos>>
    /\ UNCHANGED <<clock, video_queue, constructed, tpath, nadmit, usedNames,
                   taken>>
    /\ UNCHANGED <<apivars, redirectvars, extractvars, pollvars, drivervars, sleepvars>>

NextEvict ==
    \/ TickAdmit
    \/ ExternalDelete
    \/ PollAppend
    \/ EvictBegin
    \/ EvictPlayed
    \/ EvictUnplayed
    \/ PollPop
    \/ PollCheck
    \/ PollNone
    \/ CleanCacheUnplayed
    \/ CleanCachePlayed

SpecEvict == InitEvict /\ [][NextEvict]_vars

(* ============== the filler loop and _play_next_video =================== *)
\* cache_videos runs on the filler thread until stop_cache_event is set;
\* _play_next_video and _on_closing run on the window's thread.  A call of
\* get_video_link or of cache_video is one step here, taken when the call
\* completes: the thread stands before it (fpc "acquire", "admit") for as
\* long as the call is in flight.  What get_video_link does inside is the
\* matter of the section on it; here it yields a URL or None.

\* max_uncached of the modelled CacheManager (the program's default is 10)
max_uncached == 1

\* while not self.stop_cache_event.is_set(), if the flag were not read
LoopGuardBlind(flag) == TRUE
\* while not self.stop_cache_event.is_set()
LoopGuard(flag) == ~flag

\* the except clause of cache_videos if it ended the loop
HandlerEndsLoop(seconds) == [fpc |-> "exited", wait |-> 0]
\* except Exception as e: logger.error(...); time.sleep(5)
Handler(seconds) == [fpc |-> "sleep_error", wait |-> seconds]

\* _play_next_video if it went to the network whatever get_next_video returned
PlayBranchNetwork(next_video) == "acquire"
\* if next_video: self._load_and_play_video(next_video)
\* else: self._load_new_video_from_api()
PlayBranch(next_video) == IF next_video # <<>> THEN "play" ELSE "acquire"

\* the downloads followed here: one that succeeds, one whose request fails
DriverOutcomes == {"ok", "error_before_open"}
\* once MaxAdmits records have been appended, only the second
FailingOutcomes == {o \in DriverOutcomes : Raises(o)}
\* the three calls of time.sleep in cache_videos
Sleeps == {"sleep_no_url", "sleep_enough", "sleep_error"}
\* len(self.video_queue)
get_uncached_count(vq) == Len(vq)

InitDriver ==
    /\ CacheIdle /\ ServiceIdle /\ RedirectIdle /\ ExtractIdle /\ PollIdle
    /\ SleepIdle
    /\ stop_cache_event = FALSE
    /\ fpc = "test"
    /\ wait = 0
    /\ late = [acquire |-> 0, admit |-> 0]
    /\ is_loading = FALSE
    /\ ppc = "idle"

\* a call completed by the loop counts as late if the flag is set by then;
\* the count stops at 2
Late(call) ==
    IF stop_cache_event /\ late[call] < 2
    THEN [late EXCEPT ![call] = late[call] + 1]
    ELSE late

\* a call of cache_video inside a step of thread code: the store's part
StoreAdmit ==
    \E outcome \in (IF nadmit < MaxAdmits THEN DriverOutcomes
                                          ELSE FailingOutcomes) :
    \E lk \in SUBSET Attempted(outcome, clock) :
        LET r == cache_video(video_queue, played_videos, disk, clock,
                             nadmit + 1, outcome, lk)
        IN /\ video_queue' = r.vq
           /\ played_videos' = r.pv
           /\ disk' = r.disk
           /\ op' = "cache_video"
           /\ ret' = r.ret
           /\ chosen' = <<ChooseName(clock)>>
           /\ skipped' = <<>>
           /\ rmFailed' = r.failed
           /\ nadmit' = IF r.appended THEN nadmit + 1 ELSE nadmit
           /\ UNCHANGED <<clock, constructed, pc, tpath, usedNames, taken>>

\* while not self.stop_cache_event.is_set():
LoopTest ==
    /\ fpc = "test"
    /\ fpc' = IF LoopGuard(stop_cache_event) THEN "count" ELSE "exited"
    /\ UNCHANGED <<stop_cache_event, wait, late, is_loading, ppc>>
    /\ UNCHANGED <<cachevars, apivars, redirectvars, extractvars, pollvars, sleepvars>>

\* the test taken as uncached_count <= max_uncached
AtOrBelowWatermark(uncached_count) == uncached_count <= max_uncached
\* if uncached_count < self.cache_manager.max_uncached:
BelowWatermark(uncached_count) == uncached_count < max_uncached

\* uncached_count = get_uncached_count(); if uncached_count < max_uncached:
\* ... else: time.sleep(10)
LoopCount ==
    /\ fpc = "count"
    /\ \E raises \in BOOLEAN :
        IF raises
        THEN fpc' = "caught" /\ UNCHANGED wait
        ELSE LET uncached_count == get_uncached_count(video_queue)
             IN IF BelowWatermark(uncached_count)
                THEN fpc' = "acquire" /\ wait' = 0
                ELSE fpc' = "sleep_enough" /\ wait' = 10
    /\ UNCHANGED <<stop_cache_event, late, is_loading, ppc>>
    /\ UNCHANGED <<cachevars, apivars, redirectvars, extractvars, pollvars, sleepvars>>

\* video_url = get_video_link(); if video_url: ... else: time.sleep(5)
LoopAcquire ==
    /\ fpc = "acquire"
    /\ \E result \in {"url", "none", "raise"} :
        CASE result = "url" -> fpc' = "admit" /\ wait' = 0
          [] result = "none" -> fpc' = "sleep_no_url" /\ wait' = 5
          [] result = "raise" -> fpc' = "caught" /\ wait' = 0
    /\ late' = Late("acquire")
    /\ UNCHANGED <<stop_cache_event, is_loading, ppc>>
    /\ UNCHANGED <<cachevars, apivars, redirectvars, extractvars, pollvars, sleepvars>>

\* self.cache_manager.cache_video(video_url), then the next iteration
LoopAdmit ==
    /\ fpc = "admit"
    /\ \/ StoreAdmit /\ fpc' = "test"
       \/ fpc' = "caught" /\ UNCHANGED cachevars
    /\ late' = Late("admit")
    /\ UNCHANGED <<stop_cache_event, wait, is_loading, ppc>>
    /\ UNCHANGED <<apivars, redirectvars, extractvars, pollvars, sleepvars>>

\* except Exception as e: logger.error(...); time.sleep(5)
LoopCaught ==
    /\ fpc = "caught"
    /\ fpc' = Handler(5).fpc
    /\ wait' = Handler(5).wait
    /\ UNCHANGED <<stop_cache_event, late, is_loading, ppc>>
    /\ UNCHANGED <<cachevars, apivars, redirectvars, extractvars, pollvars, sleepvars>>

\* time.sleep returns
LoopWake ==
    /\ fpc \in Sleeps
    /\ fpc' = "test"
    /\ wait' = 0
    /\ UNCHANGED <<stop_cache_event, late, is_loading, ppc>>
    /\ UNCHANGED <<cachevars, apivars, redirectvars, extractvars, pollvars, sleepvars>>

\* one step of the filler thread
LoopStep ==
    \/ LoopTest
    \/ LoopCount
    \/ LoopAcquire
    \/ LoopAdmit
    \/ LoopCaught
    \/ LoopWake

\* _play_next_video: if self.is_loading: return; self.is_loading = True
PlayBegin ==
    /\ ppc = "idle"
    /\ ~stop_cache_event
    /\ ~is_loading
    /\ is_loading' = TRUE
    /\ ppc' = "take"
    /\ UNCHANGED <<stop_cache_event, fpc, wait, late>>
    /\ UNCHANGED <<cachevars, apivars, redirectvars, extractvars, pollvars, sleepvars>>

\* next_video = self.cache_manager.get_next_video(); if next_video: ... else:
PlayTake ==
    /\ ppc = "take"
    /\ \E lk \in SUBSET Stale :
        LET r == get_next_video(video_queue, played_videos, disk, lk)
        IN /\ video_queue' = r.vq
           /\ played_videos' = r.pv
           /\ disk' = r.disk
           /\ op' = "get_next_video"
           /\ ret' = r.ret
           /\ chosen' = <<>>
           /\ skipped' = r.skipped
           /\ rmFailed' = r.failed
           /\ ppc' = PlayBranch(r.ret)
    /\ UNCHANGED <<clock, constructed, pc, tpath, nadmit, usedNames, taken>>
    /\ UNCHANGED <<stop_cache_event, fpc, wait, late, is_loading>>
    /\ UNCHANGED <<apivars, redirectvars, extractvars, pollvars, sleepvars>>

\* self._load_and_play_video(next_video)
PlayFromCache ==
    /\ ppc = "play"
    /\ ppc' = "finally"
    /\ UNCHANGED <<stop_cache_event, fpc, wait, late, is_loading>>
    /\ UNCHANGED <<cachevars, apivars, redirectvars, extractvars, pollvars, sleepvars>>

\* _load_new_video_from_api: video_url = get_video_link(); without a URL
\* the else branch is taken, where loading_window is an unbound name: the
\* except clause shows the error and the call returns
PlayAcquire ==
    /\ ppc = "acquire"
    /\ \E result \in {"url", "none"} :
        ppc' = IF result = "url" THEN "admit" ELSE "finally"
    /\ UNCHANGED <<stop_cache_event, fpc, wait, late, is_loading>>
    /\ UNCHANGED <<cachevars, apivars, redirectvars, extractvars, pollvars, sleepvars>>

\* _load_new_video_from_api: video_path = cache_video(video_url); both
\* branches then start with loading_window.destroy(), an unbound name: the
\* except clause shows the error and the call returns
PlayAdmit ==
    /\ ppc = "admit"
    /\ StoreAdmit
    /\ ppc' = "finally"
    /\ UNCHANGED <<stop_cache_event, fpc, wait, late, is_loading>>
    /\ UNCHANGED <<apivars, redirectvars, extractvars, pollvars, sleepvars>>

\* finally: self.is_loading = False
PlayFinally ==
    /\ ppc = "finally"
    /\ is_loading' = FALSE
    /\ ppc' = "idle"
    /\ UNCHANGED <<stop_cache_event, fpc, wait, late>>
    /\ UNCHANGED <<cachevars, apivars, redirectvars, extractvars, pollvars, sleepvars>>

\* _on_closing: self.stop_cache_event.set()
SetStop ==
    /\ ppc = "idle"
    /\ ~stop_cache_event
    /\ stop_cache_event' = TRUE
    /\ UNCHANGED <<fpc, wait, late, is_loading, ppc>>
    /\ UNCHANGED <<cachevars, apivars, redirectvars, extractvars, pollvars, sleepvars>>

NextDriver ==
    \/ TickAdmit
    \/ ExternalDelete
    \/ LoopTest
    \/ LoopCount
    \/ LoopAcquire
    \/ LoopAdmit
    \/ LoopCaught
    \/ LoopWake
    \/ PlayBegin
    \/ PlayTake
    \/ PlayFromCache
    \/ PlayAcquire
    \/ PlayAdmit
    \/ PlayFinally
    \/ SetStop

SpecDriver == InitDriver /\ [][NextDriver]_vars

\* The same under the scheduling of the program: the filler thread is
\* a thread of its own, which the interpreter keeps running, and its calls
\* and sleeps return
SpecDriverFair == SpecDriver /\ WF_vars(LoopStep)

(* ================ get_video_link, iteration by iteration =============== *)
\* One thread alone in get_video_link, one step for each iteration of the
\* while loop, with the seconds of its time.sleep calls added up.
\* how an iteration ends
AttemptKinds ==
    {"url", "non200", "no_url", "connection_error", "timeout", "other_error",
     "unprobeable"}
TryFailures == {"non200", "no_url"}
Uncounted == {"other_error", "unprobeable"}

\* the exponent taken from retries as it was before retries += 1
WaitTimeBeforeIncrement(kind, r) ==
    CASE kind \in TryFailures -> IF 2 ^ (r - 1) <= 8 THEN 2 ^ (r - 1) ELSE 8
      [] kind = "connection_error" -> 2
      [] kind = "timeout" -> 3
      [] kind \in Uncounted -> 1
\* wait_time = min(2 ** retries, 8) at the end of the try block, and the
\* time.sleep(2), time.sleep(3), time.sleep(1) of the except clauses; r is
\* retries after retries += 1
WaitTime(kind, r) ==
    CASE kind \in TryFailures -> IF 2 ^ r <= 8 THEN 2 ^ r ELSE 8
      [] kind = "connection_error" -> 2
      [] kind = "timeout" -> 3
      [] kind \in Uncounted -> 1

InitBackoff ==
    /\ CacheIdle /\ ServiceIdle /\ RedirectIdle /\ ExtractIdle /\ PollIdle
    /\ DriverIdle /\ SleepIdle

\* get_video_link is entered: retries = 0
BackoffStart ==
    /\ apc["filler"] = "idle"
    /\ ncalls < MaxCalls
    /\ ncalls' = ncalls + 1
    /\ retries' = [retries EXCEPT !["filler"] = 0]
    /\ nreq' = [nreq EXCEPT !["filler"] = 0]
    /\ aret' = [aret EXCEPT !["filler"] = [done |-> FALSE, url |-> <<>>]]
    /\ apc' = [apc EXCEPT !["filler"] = "head"]
    /\ answer' = [answer EXCEPT !["filler"] = ""]
    /\ wait_time' = 0
    /\ slept' = 0
    /\ UNCHANGED <<current_api_index, fail_count, loaded, cand, ncross, nswitch>>
    /\ UNCHANGED <<cachevars, redirectvars, extractvars, pollvars, drivervars>>

\* an iteration that finds a URL: follow_redirects, fail_count = 0, return
BackoffReturnUrl ==
    /\ apc["filler"] = "head"
    /\ retries["filler"] < max_retries
    /\ \E c \in SampleChains :
        LET r == ReturnFinal(fail_count, follow_redirects(c).out.ret)
        IN /\ fail_count' = r.fail_count
           /\ aret' = [aret EXCEPT !["filler"] = [done |-> TRUE, url |-> r.url]]
    /\ nreq' = [nreq EXCEPT !["filler"] = @ + 1]
    /\ answer' = [answer EXCEPT !["filler"] = "url"]
    /\ apc' = [apc EXCEPT !["filler"] = "idle"]
    /\ UNCHANGED <<current_api_index, retries, loaded, cand, ncalls, ncross,
                   nswitch>>
    /\ UNCHANGED <<cachevars, redirectvars, extractvars, pollvars, drivervars,
                   sleepvars>>

\* an iteration that fails: the counters, the switch at the end of the try
\* block, and the time.sleep
BackoffAttempt ==
    /\ apc["filler"] = "head"
    /\ retries["filler"] < max_retries
    /\ \E kind \in AttemptKinds \ {"url"} :
        LET counted == IF kind \in Uncounted THEN fail_count ELSE fail_count + 1
            r == IF kind \in Uncounted THEN RetriesAfterUnknown(retries["filler"])
                 ELSE retries["filler"] + 1
            switch == kind \in TryFailures /\ counted >= switch_threshold
                          /\ NApi > 1
        IN /\ fail_count' = IF switch THEN 0 ELSE counted
           /\ current_api_index' =
                  IF switch THEN NextIndex(current_api_index, NApi)
                  ELSE current_api_index
           /\ nswitch' = IF switch THEN nswitch + 1 ELSE nswitch
           /\ ncross' = IF fail_count < switch_threshold
                            /\ counted >= switch_threshold
                        THEN ncross + 1 ELSE ncross
           /\ retries' = [retries EXCEPT !["filler"] = r]
           /\ answer' = [answer EXCEPT !["filler"] = kind]
           /\ wait_time' = WaitTime(kind, r)
           /\ slept' = slept + WaitTime(kind, r)
    /\ nreq' = [nreq EXCEPT !["filler"] = @ + 1]
    /\ UNCHANGED <<apc, loaded, aret, cand, ncalls>>
    /\ UNCHANGED <<cachevars, redirectvars, extractvars, pollvars, drivervars>>

\* the loop ends with retries = max_retries: return None
BackoffReturnNone ==
    /\ apc["filler"] = "head"
    /\ retries["filler"] >= max_retries
    /\ aret' = [aret EXCEPT !["filler"] = [done |-> TRUE, url |-> <<>>]]
    /\ apc' = [apc EXCEPT !["filler"] = "idle"]
    /\ UNCHANGED <<current_api_index, fail_count, retries, loaded, nreq, cand,
                   ncalls, ncross, nswitch, answer>>
    /\ UNCHANGED <<cachevars, redirectvars, extractvars, pollvars, drivervars,
                   sleepvars>>

NextBackoff ==
    \/ BackoffStart
    \/ BackoffReturnUrl
    \/ BackoffAttempt
    \/ BackoffReturnNone

SpecBackoff == InitBackoff /\ [][NextBackoff]_vars

(* ============================ the filler alone ========================= *)
\* MainWindow.__init__ constructs the store on the cache directory it finds
\* and starts the filler thread; then cache_videos runs with the flag never
\* set, no call of _play_next_video, and every call of the loop succeeding:
\* get_video_link returns a URL and cache_video a path.  The clock ticks and
\* files are deleted from outside as before.
\* the cache directory at the start: the videos an earlier run has left, at
\* most max_cache of them, each written in a second of its own
FillDisks ==
    {d \in StartDisks :
        /\ \A p \in Paths : exists(d, p) => d[p] = File(1, p)
        /\ Cardinality({p \in Paths : exists(d, p)}) <= max_cache}

InitFill == InitStartup /\ disk \in FillDisks

\* _start_cache_thread: self.cache_thread.start()
FillStart ==
    /\ constructed
    /\ fpc = "unstarted"
    /\ fpc' = "test"
    /\ UNCHANGED <<stop_cache_event, wait, late, is_loading, ppc>>
    /\ UNCHANGED <<cachevars, apivars, redirectvars, extractvars, pollvars, sleepvars>>

FillCount == LoopCount /\ fpc' # "caught"

FillAcquire == LoopAcquire /\ fpc' = "admit"

FillAdmit == LoopAdmit /\ fpc' = "test" /\ ret' # <<>>

\* one step of the thread of MainWindow.__init__ or of the filler thread
FillStep ==
    \/ Construct
    \/ FillStart
    \/ LoopTest
    \/ FillCount
    \/ FillAcquire
    \/ FillAdmit
    \/ LoopWake

NextFill ==
    \/ TickAdmit
    \/ ExternalDelete
    \/ Construct
    \/ FillStart
    \/ LoopTest
    \/ FillCount
    \/ FillAcquire
    \/ FillAdmit
    \/ LoopWake

\* __init__ runs to its end, the filler is a thread of its own, which the
\* interpreter keeps running, and its calls and sleeps return
SpecFill == InitFill /\ [][NextFill]_vars /\ WF_vars(FillStep)

(* ============================== properties ============================= *)
CountTotal == Len(video_queue) + Len(played_videos)
\* the step is a call of get_next_video, of cache_video
IsTake == op' = "get_next_video"
IsAdmit == op' = "cache_video"
\* the records of q on valid files, by index
ValidIndexes(q, d) == {i \in 1..Len(q) : IsValid(d, q[i].path)}
OrdersIncreasing(q) == \A i, j \in 1..Len(q) : i < j => q[i].ord < q[j].ord
Mp4Files(d) == {p \in Paths : exists(d, p) /\ d[p].mp4}
MinOf(a, b) == IF a <= b THEN a ELSE b

\* C1: after construction and after every completed call of a run in which
\* the calls are made one at a time, the two queues together hold at most
\* max_cache records.
C1_TotalWithinMax == constructed => CountTotal <= max_cache

\* C1's case: an admit has returned after the eviction pass brought a store
\* with played records back to max_cache records
C1_Witness ==
    /\ op = "cache_video" /\ ret # <<>>
    /\ CountTotal = max_cache
    /\ nadmit > max_cache
    /\ played_videos # <<>>

\* C2 (the claim as stated): no path is in both queues at the same time.
C2_NoPathInBothQueues ==
    PathsOf(video_queue) \cap PathsOf(played_videos) = {}

C3_TakeStep ==
    IsTake =>
        LET V == ValidIndexes(video_queue, disk)
        IN IF V = {}
           THEN ret' = <<>>
           ELSE \E i \in V :
                   /\ \A j \in V : video_queue[i].ord <= video_queue[j].ord
                   /\ ret' = <<video_queue[i].path>>
                   /\ played_videos'[Len(played_videos')] = video_queue[i]

\* C3: video_queue is in admission order at all times, and get_next_video
\* returns the earliest admitted record of video_queue whose file exists
\* with a size above 0, None if there is none.
C3_FifoTakeNext ==
    /\ OrdersIncreasing(video_queue)
    /\ [][OrdersIncreasing(video_queue') /\ C3_TakeStep]_vars

\* C3's case: get_next_video has returned a record and left later ones in
\* video_queue
C3_Witness ==
    /\ op = "get_next_video" /\ ret # <<>>
    /\ Len(video_queue) >= 1
    /\ played_videos # <<>>
    /\ played_videos[Len(played_videos)].ord < video_queue[1].ord

C4_TakeStep == (IsTake /\ ret' # <<>>) => ret'[1] \notin taken

\* C4 (the claim as stated): get_next_video does not return a path it has
\* returned before unless an admission appended that path since.
C4_NeverSamePathTwice == [][C4_TakeStep]_vars

C5_TakeStep ==
    IsTake =>
        LET q == video_queue
            V == ValidIndexes(q, disk)
            k == IF V = {} THEN Len(q) + 1
                 ELSE CHOOSE i \in V : \A j \in V : i <= j
            gone == {q[i].path : i \in 1..(k - 1)}
        IN /\ skipped' = SubSeq(q, 1, k - 1)
           /\ video_queue' = SubSeq(q, k + 1, Len(q))
           /\ IF V = {}
              THEN ret' = <<>> /\ played_videos' = played_videos
              ELSE ret' = <<q[k].path>> /\ played_videos' = Append(played_videos, q[k])
           /\ \A p \in Paths :
                IF p \in gone /\ p \notin rmFailed'
                THEN ~exists(disk', p)
                ELSE disk'[p] = disk[p]
           /\ rmFailed' \subseteq {p \in gone : exists(disk, p)}

C6_AdmitStep ==
    (IsAdmit /\ ret' # <<>>) =>
        LET new == Entry(ret'[1], nadmit')
            all == Append(video_queue, new)
        IN /\ \E k \in 0..Len(played_videos) :
                played_videos' = SubSeq(played_videos, k + 1, Len(played_videos))
           /\ \E k \in 0..Len(all) : video_queue' = SubSeq(all, k + 1, Len(all))
           /\ video_queue' # all => played_videos' = <<>>
           /\ (played_videos = <<>> /\ Len(video_queue) = max_cache)
                => video_queue' = Tail(all)

\* C6 (the claim as stated): an eviction pass removes the oldest played
\* records first and unplayed records only once played_videos is empty; and
\* an admit into a store of max_cache unplayed records and no played one
\* evicts exactly the first admitted and keeps the others in admission order.
C6_EvictionOrder == [][C6_AdmitStep]_vars

\* The statement of C6 restricted to the admits in which no os.remove raises
EvictionOrderWhenNoRemoveRaises == [][rmFailed' = {} => C6_AdmitStep]_vars

C7_AdmitStep ==
    (IsAdmit /\ ret' = <<>> /\ rmFailed' = {}) =>
        /\ video_queue' = video_queue
        /\ played_videos' = played_videos
        /\ ~exists(disk', ChooseName(clock))

\* C7 (the claim as stated, for the calls in which no os.remove raised): a
\* failed admit leaves both queues as they were and no file under the name
\* it chose.
C7_FailedAdmitLeavesNothing == [][C7_AdmitStep]_vars

\* C8 (the claim as stated): the path of a download in progress is in
\* neither queue.
C8_MidAdmissionUntracked ==
    \A t \in Threads :
        pc[t] # "idle" =>
            tpath[t] \notin PathsOf(video_queue) \cup PathsOf(played_videos)

EvictStep ==
    (IsAdmit /\ ret' # <<>>) =>
        \A t \in Threads : pc[t] = "writing" => pc'[t] # "orphaned"

\* The consequence C8 draws: the eviction pass of an admit removes the file
\* of no download in progress
EvictionSparesDownloads == [][EvictStep]_vars

C9_OpenStep ==
    \A t \in Threads :
        (pc[t] = "idle" /\ pc'[t] = "writing") =>
            ChooseName(clock) \notin usedNames

\* C9 (the claim as stated): the name an admit chooses is the name of no
\* other admit, earlier or in progress.
C9_UniqueNames == [][C9_OpenStep]_vars

C10_ConstructStep ==
    (~constructed /\ constructed') =>
        LET files == Mp4Files(disk)
            kept == PathsOf(video_queue')
        IN /\ Len(video_queue') + Len(played_videos') =
                  MinOf(Cardinality(files), max_cache)
           /\ played_videos' = <<>>
           /\ kept \subseteq files
           /\ Cardinality(kept) = Len(video_queue')
           /\ \A i, j \in 1..Len(video_queue') :
                  i < j => disk[video_queue'[i].path].mtime
                              <= disk[video_queue'[j].path].mtime
           /\ \A r \in kept : \A e \in files \ kept :
                  disk[e].mtime <= disk[r].mtime

\* C10 (the claim as stated): construction on a directory of n .mp4 files
\* leaves min(n, max_cache) records, all in video_queue, in ascending order
\* of modification time, and they are the most recently modified ones.
C10_StartupReconciliation == [][C10_ConstructStep]_vars

\* The statement of C10 restricted to the constructions in which no
\* os.remove raises
StartupWhenNoRemoveRaises == [][rmFailed' = {} => C10_ConstructStep]_vars

(* ---------------------------- follow_redirects ------------------------- *)
\* the call has returned, on a chain whose redirects all carry a Location
\* header and whose requests all succeed
CleanChainDone ==
    /\ rret # <<>>
    /\ chain[1].noloc = 0
    /\ chain[1].raiseAt = 0

\* C15: on a chain of N <= 5 redirects ending in a 200, follow_redirects
\* returns the final URL; on a chain of more than 5 redirects it follows
\* exactly 5 of them and returns the URL reached then, not the original URL,
\* and nothing is raised.
C15_BoundedRedirectChain ==
    CleanChainDone =>
        /\ (chain[1].n <= max_redirects /\ chain[1].final = 200) =>
               /\ rret[1].out.ret = chain[1].n
               /\ rret[1].followed = chain[1].n
               /\ ~rret[1].out.escaped
        /\ chain[1].n > max_redirects =>
               /\ rret[1].followed = max_redirects
               /\ rret[1].out.ret = max_redirects
               /\ rret[1].out.ret # 0
               /\ ~rret[1].out.escaped

C15_Witness ==
    /\ CleanChainDone
    /\ chain[1].n > max_redirects
    /\ rret[1].out.ret = max_redirects

\* the requests follow_redirects issues on chain c include request raiseAt
RaisingRequestReached(c) ==
    /\ c.raiseAt # 0
    /\ c.raiseAt <= c.n + 1
    /\ c.raiseAt <= max_redirects + 1
    /\ c.noloc = 0 \/ c.raiseAt <= c.noloc

\* C16: if a request of the redirect chain raises, follow_redirects returns
\* the URL it was given, unchanged, and raises nothing.
C16_ErrorReturnsOriginal ==
    (rret # <<>> /\ RaisingRequestReached(chain[1])) =>
        /\ rret[1].raised
        /\ rret[1].out.ret = 0
        /\ ~rret[1].out.escaped

C16_Witness ==
    /\ rret # <<>>
    /\ chain[1].raiseAt = 3
    /\ chain[1].noloc = 0
    /\ rret[1].followed = 1
    /\ rret[1].out.ret = 0

(* --------------------------- _extract_video_url ------------------------ *)
\* the rank of a key in the probing order data, url, video_url, link, src, video
Priority ==
    [data |-> 1, url |-> 2, video_url |-> 3, link |-> 4, src |-> 5, video |-> 6]

\* what the value under one key of a mapping yields: the URL found inside a
\* nested mapping or sequence, else the stripped text of the value
YieldOf(v) ==
    IF v.kind \in {"dict", "list"} THEN _extract_video_url(v)
    ELSE IF Strip(Str(v)) # "" THEN Found(Strip(Str(v))) ELSE NoneFound
Yields(v) == YieldOf(v).raised \/ YieldOf(v).ret # <<>>

ExampleBody ==
    JDict([data |-> JDict([url |-> JStr("X")]), url |-> JStr("Y")])

\* C17: on a mapping body the keys are probed in the order data, url,
\* video_url, link, src, video and a nested mapping is searched before the
\* sibling keys that come later: the result is what the first key (in that
\* order) that yields anything yields; {"data": {"url": "X"}, "url": "Y"}
\* gives "X".
C17_KeyPrecedence ==
    (xret # <<>> /\ data[1].kind = "dict") =>
        LET d == data[1].val
            yielding == {k \in DOMAIN d : Yields(d[k])}
        IN /\ yielding = {} => xret[1] = NoneFound
           /\ \A k \in yielding :
                  (\A j \in yielding : Priority[k] <= Priority[j])
                      => xret[1] = YieldOf(d[k])
           /\ data[1] = ExampleBody => xret[1] = Found("X")

C17_Witness ==
    /\ data = <<ExampleBody>>
    /\ xret = <<Found("X")>>

(* ------------------------------ get_video_link ------------------------- *)
\* thread t issues a request, and no other thread has ever called
\* get_video_link
LoneRequest(t) ==
    /\ nreq'[t] = nreq[t] + 1
    /\ \A u \in Threads \ {t} : apc[u] = "idle" /\ ~aret[u].done

\* C11: with two endpoints or more, once switch_threshold consecutive
\* attempts have failed (non-200 answers, answers without a URL, connection
\* errors and timeouts all counted), the index has advanced and fail_count
\* is back to 0 before the next attempt is issued: no request goes out
\* while fail_count is at the threshold or above.
C11_SwitchBeforeNextAttempt ==
    [][\A t \in Threads :
         (NApi >= 2 /\ LoneRequest(t)) => fail_count < switch_threshold]_vars

\* C12: every call of get_video_link ends; it issues at most max_retries
\* requests and, when none of them gives a URL, returns None.
C12_AcquireTerminates ==
    /\ [](\A t \in Threads :
            /\ nreq[t] <= max_retries
            /\ (aret[t].done /\ aret[t].url = <<>>) => nreq[t] = max_retries)
    /\ \A t \in Threads : (apc[t] # "idle") ~> (apc[t] = "idle" /\ aret[t].done)

C12_Witness ==
    \E t \in Threads :
        /\ apc[t] = "idle"
        /\ aret[t].done
        /\ aret[t].url = <<>>
        /\ nreq[t] = max_retries

C13_ReturnStep(t) ==
    /\ (apc[t] = "waiting" /\ answer'[t] = "url") => apc'[t] = "resolving"
    /\ (apc[t] = "resolving" /\ apc'[t] # "resolving") =>
           /\ apc'[t] = "idle"
           /\ aret'[t] = [done |-> TRUE,
                          url |-> <<follow_redirects(cand[t][1]).out.ret>>]
           /\ fail_count' = 0
           /\ current_api_index' = current_api_index
           /\ nreq'[t] = nreq[t]

\* C13: the first attempt whose answer has a URL ends the call: what
\* follow_redirects makes of the URL is returned, fail_count is set to 0,
\* current_api_index is left as it is, and no further request is issued.
C13_FirstUrlEndsCall == [][\A t \in Threads : C13_ReturnStep(t)]_vars

C13_Witness ==
    \E t \in Threads :
        /\ apc[t] = "idle"
        /\ aret[t].done
        /\ aret[t].url = <<1>>
        /\ nreq[t] = 2
        /\ fail_count = 0
        /\ ncross = 0

\* C14: current_api_index is an index of api_urls in every reachable state,
\* whatever the interleaving of the calls.
C14_IndexInRange == current_api_index \in 0..(NApi - 1)

C14_Witness ==
    /\ nswitch >= NApi
    /\ current_api_index = 0

\* C20: with get_video_link running on two threads the index advances once
\* per crossing of the threshold: the index has never been advanced more
\* often than fail_count has reached switch_threshold.
C20_OneSwitchPerCrossing == nswitch <= ncross

\* the same, as long as one thread only has called get_video_link
OneSwitchPerCrossingAlone ==
    (\E u \in Threads : apc[u] = "idle" /\ ~aret[u].done) => nswitch <= ncross

(* ------------------- the store as other threads see it ----------------- *)
\* C18: no thread sees a call of the store half done: a record being moved
\* is never out of both queues for a reader, so a get_cache_count made while
\* get_next_video handles a valid record gives the count of the tracked
\* records, not one less.
C18_NoTornCount ==
    observed # <<>> => observed[1].cache_count = observed[1].tracked

\* C19: a get_cache_count made by the progress thread while another thread
\* is inside cache_video never gives more than max_cache.
C19_ObservedWithinMax ==
    observed # <<>> => observed[1].cache_count <= max_cache

\* the step is a call of remove_video
IsRemove == op' = "remove_video"
\* q2 is q without its first record on the path p
WithoutFirst(q, q2, p) ==
    \E i \in 1..Len(q) :
        /\ q[i].path = p
        /\ \A j \in 1..(i - 1) : q[j].path # p
        /\ q2 = SubSeq(q, 1, i - 1) \o SubSeq(q, i + 1, Len(q))
\* no file but that of p differs between d and d2
OnlyFileTouched(d, d2, p) == \A x \in Paths \ {p} : d2[x] = d[x]
\* what remove_video does to the queues
C24_QueueEffect(p) ==
    IF InQueue(p, video_queue)
    THEN WithoutFirst(video_queue, video_queue', p)
            /\ played_videos' = played_videos
    ELSE IF InQueue(p, played_videos)
         THEN WithoutFirst(played_videos, played_videos', p)
                 /\ video_queue' = video_queue
         ELSE /\ video_queue' = video_queue
              /\ played_videos' = played_videos
              /\ disk' = disk
              /\ rmFailed' = {}

C24_StatedStep ==
    IsRemove =>
        LET p == chosen'[1]
        IN /\ C24_QueueEffect(p)
           /\ OnlyFileTouched(disk, disk', p)
           /\ (InQueue(p, video_queue) \/ InQueue(p, played_videos))
                => ~exists(disk', p)

\* C24 (the claim as stated): remove_video takes a tracked path out of the
\* queue that holds it, leaves the other queue as it was and deletes the
\* file; for an untracked path it changes nothing.
C24_RemoveDeletesFile == [][C24_StatedStep]_vars

C24_AmendedStep ==
    IsRemove =>
        LET p == chosen'[1]
        IN /\ C24_QueueEffect(p)
           /\ OnlyFileTouched(disk, disk', p)
           /\ (InQueue(p, video_queue) \/ InQueue(p, played_videos))
                => IF p \in rmFailed'
                   THEN disk' = disk /\ exists(disk, p)
                   ELSE ~exists(disk', p)
           /\ rmFailed' \subseteq {p}

\* C24 (amended): remove_video takes a tracked path out of the queue that
\* holds it (the first record on that path), leaves the other queue as it
\* was and deletes the file, unless os.remove raises: then the record is
\* removed all the same and the file stays.  For an untracked path it
\* changes neither queue nor any file.  No other file is touched.
C24_RemoveBestEffort == [][C24_AmendedStep]_vars

\* C24's case: remove_video has removed the record of a path whose file
\* os.remove could not delete
C24_Witness ==
    /\ op = "remove_video"
    /\ rmFailed # {}
    /\ \A p \in rmFailed :
          /\ chosen = <<p>>
          /\ exists(disk, p)
          /\ ~InQueue(p, video_queue) /\ ~InQueue(p, played_videos)

\* the step is a call of move_to_played
IsMove == op' = "move_to_played"
C25_MoveStep ==
    IsMove =>
        LET p == chosen'[1]
        IN /\ IF InQueue(p, video_queue)
              THEN /\ WithoutFirst(video_queue, video_queue', p)
                   /\ Len(played_videos') = Len(played_videos) + 1
                   /\ SubSeq(played_videos', 1, Len(played_videos)) = played_videos
                   /\ played_videos'[Len(played_videos')].path = p
                   /\ Len(video_queue') + Len(played_videos') = CountTotal
              ELSE /\ video_queue' = video_queue
                   /\ played_videos' = played_videos
           /\ disk' = disk

\* C25: move_to_played of a path in video_queue removes its record from
\* video_queue and appends it at the tail of played_videos, the total count
\* unchanged; of a path that is not in video_queue it changes neither
\* queue.  No file is touched.
C25_MarkPlayed == [][C25_MoveStep]_vars

\* C25's case: move_to_played has moved a record to the tail of
\* played_videos while a record admitted before it stays unplayed
C25_Witness ==
    /\ op = "move_to_played"
    /\ played_videos # <<>> /\ video_queue # <<>>
    /\ chosen = <<played_videos[Len(played_videos)].path>>
    /\ played_videos[Len(played_videos)].ord > video_queue[1].ord

C29_AdmitStep ==
    (IsAdmit /\ ret' # <<>> /\ CountTotal + 1 > max_cache) =>
        Len(video_queue') + Len(played_videos') = max_cache

EvictsExactlyKWhenNoRemoveRaises == [][rmFailed' = {} => C29_AdmitStep]_vars

\* the records among the first n of q whose path is not in the set F
Unfailed(q, n, F) == {i \in 1..n : q[i].path \notin F}
C28_AdmitStep ==
    (IsAdmit /\ ret' # <<>>) =>
        LET all == Append(video_queue, Entry(ret'[1], nadmit'))
            k == IF CountTotal + 1 > max_cache
                 THEN (CountTotal + 1) - max_cache ELSE 0
        IN \E a \in 0..Len(played_videos) : \E b \in 0..Len(all) :
              LET gone == {played_videos[i].path : i \in 1..a}
                              \cup {all[i].path : i \in 1..b}
                  done == Cardinality(Unfailed(played_videos, a, rmFailed'))
                              + Cardinality(Unfailed(all, b, rmFailed'))
              IN /\ played_videos' = SubSeq(played_videos, a + 1, Len(played_videos))
                 /\ video_queue' = SubSeq(all, b + 1, Len(all))
                 /\ \A p \in gone : p \notin rmFailed' => ~exists(disk', p)
                 /\ rmFailed' \subseteq gone
                 /\ \A p \in rmFailed' : exists(disk', p)
                 /\ \/ done = k
                    \/ done < k /\ video_queue' = <<>> /\ played_videos' = <<>>

\* C28: every record the eviction pass of an admit evicts is removed from
\* its queue and its file is deleted, unless os.remove raised for it; and a
\* raising os.remove does not end the pass, which goes on until as many
\* evictions as were required have gone through or both queues are empty.
C28_FailureDoesNotAbort == [][C28_AdmitStep]_vars

\* C28's case: os.remove has raised for a record of the pass and the pass
\* has evicted another record after it
C28_Witness ==
    /\ op = "cache_video" /\ ret # <<>>
    /\ rmFailed # {}
    /\ CountTotal < max_cache
    /\ \A p \in rmFailed : exists(disk, p) /\ ~InQueue(p, video_queue)
                              /\ ~InQueue(p, played_videos)

C30_AdmitStep ==
    (IsAdmit /\ ret' # <<>> /\ max_cache >= 1) =>
        /\ InQueue(ret'[1], video_queue')
        /\ exists(disk', ret'[1])

AdmittedSurvivesWhenNoRaiseNoCollision ==
    [][(rmFailed' = {} /\ ~InQueue(ChooseName(clock), video_queue)
            /\ ~InQueue(ChooseName(clock), played_videos)) => C30_AdmitStep]_vars

\* the sizes of the files of the tracked paths, a missing file counting 0
TrackedBytes ==
    SumSizes({p \in PathsOf(video_queue) \cup PathsOf(played_videos) :
                 exists(disk, p)}, disk)

\* C26 (the claim as stated): get_cache_size returns the sum of the sizes
\* of the files of the tracked records and counts no untracked file.
C26_SizeOfTrackedOnly == constructed => get_cache_size(disk) = TrackedBytes

\* the records of the store: those of the two queues and the valid one that
\* a get_next_video in progress holds between its popleft and its append
Tracked ==
    Len(video_queue) + Len(played_videos)
        + (IF held # <<>> /\ IsValid(disk, held[1].path) THEN 1 ELSE 0)
\* the step is an iteration of a loop of clean_old_cache: it pops a record
IsEvict ==
    /\ op' = "evict"
    /\ Len(video_queue') + Len(played_videos')
          < Len(video_queue) + Len(played_videos)
C27_EvictStep ==
    (IsEvict /\ evictFailed = {}) => Tracked > max_cache

\* C27 (the claim as stated): the eviction pass of an admit removes no
\* record at a moment when the store holds max_cache records or fewer
\* because another thread removed or discarded a record since the pass
\* computed need_to_clean.  (The passes in which an os.remove raised before
\* are left out: what they remove is the matter of C29.)
C27_NoEvictionBelowMax == [][C27_EvictStep]_vars

\* the loop of cache_videos has ended
LoopExited == fpc = "exited"
C21_TestStep ==
    /\ (fpc = "test" /\ stop_cache_event) => fpc' \in {"test", "exited"}
    /\ LoopExited => fpc' = "exited"

\* C21: a test of the loop condition made with stop_cache_event set ends
\* the loop, for good; so the loop completes at most one get_video_link and
\* at most one cache_video after the flag is set (those in flight or about
\* to start when it was set); and once the flag is set the loop ends, the
\* calls and sleeps of the thread returning.
C21_StopEndsLoop ==
    /\ [](late.acquire <= 1 /\ late.admit <= 1)
    /\ [][C21_TestStep]_vars
    /\ (stop_cache_event ~> LoopExited)

\* C21's case: the flag was set while the loop was in an iteration, the
\* get_video_link and the cache_video of that iteration completed after it,
\* and the loop ended at its next test
C21_Witness ==
    /\ stop_cache_event
    /\ LoopExited
    /\ late = [acquire |-> 1, admit |-> 1]

C22_LoopStep ==
    /\ fpc' = "exited" => (LoopExited \/ (fpc = "test" /\ stop_cache_event))
    /\ fpc = "caught" => (fpc' = "caught" \/ (fpc' = "sleep_error" /\ wait' = 5))
    /\ fpc = "sleep_error" => fpc' \in {"sleep_error", "test"}

\* C22: an exception raised in an iteration of cache_videos is caught and
\* followed by a sleep of 5 seconds, after which the loop tests its
\* condition again; the loop ends only at a test made with
\* stop_cache_event set.
C22_ErrorsDoNotEndLoop ==
    /\ [][C22_LoopStep]_vars
    /\ ((fpc = "caught") ~> (fpc = "test"))

\* C22's case: an exception was raised in an iteration, with the flag
\* unset, and the loop sleeps its 5 seconds in the except clause
C22_Witness ==
    /\ fpc = "sleep_error"
    /\ wait = 5
    /\ ~stop_cache_event

\* the step is the call of get_next_video by _play_next_video
IsPlayTake == ppc = "take" /\ ppc' # "take"
C23_PlayStep ==
    /\ IsPlayTake =>
         LET V == ValidIndexes(video_queue, disk)
         IN IF V # {}
            THEN /\ ppc' = "play"
                 /\ \E i \in V : /\ \A j \in V : i <= j
                                 /\ ret' = <<video_queue[i].path>>
            ELSE ppc' = "acquire" /\ ret' = <<>>
    /\ ppc' = "acquire" => ppc \in {"take", "acquire"}
    /\ ppc' = "admit" => ppc \in {"acquire", "admit"}
    /\ ppc = "play" => ppc' \in {"play", "finally"}

\* C23: _play_next_video calls get_video_link, and then cache_video, only
\* after its get_next_video returned None; when video_queue holds a record
\* on a valid file as get_next_video is called, the first such record is
\* what _play_next_video plays, and it makes no request.
C23_NetworkOnlyWhenEmpty == [][C23_PlayStep]_vars

\* C23's case: _play_next_video is about to play a record that
\* get_next_video returned after discarding an invalid one before it
C23_Witness ==
    /\ ppc = "play"
    /\ op = "get_next_video" /\ ret # <<>>
    /\ skipped # <<>>
    /\ IsValid(disk, ret[1])


(* ------------------- follow_redirects: the URL returned ---------------- *)
\* the status code the network answers for URL k of chain c
StatusOf(c, k) == IF k < c.n THEN c.code ELSE c.final

\* the number of the last URL follow_redirects requests on a chain none of
\* whose requests raises
LastRequested(c) ==
    LET bound == MinOf(c.n, max_redirects)
    IN IF c.noloc # 0 THEN MinOf(bound, c.noloc - 1) ELSE bound

\* the URLs requested whose answer had a status below 400
ReachedBelow400(c) == {k \in 0..LastRequested(c) : StatusOf(c, k) < 400}

\* C31: when no request raises, follow_redirects returns the last URL reached
\* in the chain whose response status was below 400, and the URL it was given
\* only if no URL was reached with such a status.
C31_LastReachedBelow400 ==
    (rret # <<>> /\ chain[1].raiseAt = 0) =>
        LET reached == ReachedBelow400(chain[1])
        IN /\ reached # {} =>
                  /\ rret[1].out.ret \in reached
                  /\ \A k \in reached : k <= rret[1].out.ret
           /\ reached = {} => rret[1].out.ret = 0

\* The statement of C31 restricted to the chains whose last answer has a
\* status below 400
LastReachedWhenFinalBelow400 ==
    (rret # <<>> /\ chain[1].raiseAt = 0
        /\ StatusOf(chain[1], LastRequested(chain[1])) < 400) =>
        /\ rret[1].out.ret = LastRequested(chain[1])
        /\ rret[1].out.ret \in ReachedBelow400(chain[1])


(* ------------------ _extract_video_url: sequence bodies ---------------- *)
\* the call has returned, on a body that is a sequence whose first element
\* is a mapping
FirstElementMapping ==
    /\ xret # <<>>
    /\ data[1].kind = "list"
    /\ Len(data[1].val) > 0
    /\ data[1].val[1].kind = "dict"

ExampleList == JList(<<JDict([data |-> JDict([url |-> JStr("X")])])>>)

\* C32: on a body that is a non-empty sequence the first element is probed
\* by the rule for mapping bodies: the first probed key present with a
\* non-empty value wins, and a nested mapping or sequence under it is
\* searched and the URL found there returned, not the text of the nested
\* value; [{"data": {"url": "X"}}] gives "X".
C32_SequenceProbedAsMapping ==
    FirstElementMapping =>
        /\ xret[1] = ProbeMapping(data[1].val[1], 1)
        /\ data[1] = ExampleList => xret[1] = Found("X")

\* The statement of C32 restricted to the sequences whose first element
\* holds no nested mapping or sequence
SequenceProbedAsMappingWhenFlat ==
    (/\ FirstElementMapping
     /\ \A k \in DOMAIN data[1].val[1].val :
            data[1].val[1].val[k].kind \notin {"dict", "list"})
        => xret[1] = ProbeMapping(data[1].val[1], 1)


(* ------------------------- _extract_url_from_text ---------------------- *)
\* t holds, from i to j, a URL ending in a known video-file extension: the
\* scheme, at least one token, none of them a quote or a blank, and an
\* extension at j
UrlWithExtension(t, i, j) ==
    /\ i + 2 <= j /\ j <= Len(t)
    /\ t[i] = Scheme
    /\ t[j] \in Extensions
    /\ \A k \in (i + 1)..(j - 1) : t[k] \notin {"\"", "'", " "}

\* t holds, from i to j, a URL closed by the quote q: the scheme, at least
\* one token, none of them the quote, and the quote right after j
UrlBeforeQuote(t, q, i, j) ==
    /\ i + 1 <= j /\ j + 1 <= Len(t)
    /\ t[i] = Scheme
    /\ t[j + 1] = q
    /\ \A k \in (i + 1)..j : t[k] # q

\* the first and shortest of a set of spans <<i, j>>
FirstSpan(spans) ==
    CHOOSE s \in spans :
        \A r \in spans : s[1] < r[1] \/ (s[1] = r[1] /\ s[2] <= r[2])

SpansOf(t, rule) ==
    {s \in (1..Len(t)) \X (1..Len(t)) :
        CASE rule = 1 -> UrlWithExtension(t, s[1], s[2])
          [] rule = 2 -> UrlBeforeQuote(t, "\"", s[1], s[2])
          [] rule = 3 -> UrlBeforeQuote(t, "'", s[1], s[2])}

\* the whole URL the text fallback is to return on t
FirstUrl(t) ==
    LET rules == {r \in 1..3 : SpansOf(t, r) # {}}
    IN IF rules = {} THEN NoneFound
       ELSE LET r == CHOOSE x \in rules : \A y \in rules : x <= y
                s == FirstSpan(SpansOf(t, r))
            IN Found(SubSeq(t, s[1], s[2]))

\* C33: the text fallback returns the first URL matching, tried in this
\* order, a URL ending in .mp4, .mov, .avi or .mkv, a URL closed by a double
\* quote, a URL closed by a single quote; on a text holding a URL that ends
\* in .mp4 the value returned, which get_video_link hands to
\* follow_redirects, is that whole URL.
C33_TextFallbackReturnsUrl ==
    tret # <<>> => tret[1] = FirstUrl(text[1])

\* The statement of C33 restricted to the texts that hold no URL ending in
\* an extension
TextFallbackWhenNoExtension ==
    (tret # <<>> /\ SpansOf(text[1], 1) = {}) => tret[1] = FirstUrl(text[1])

\* on a text holding a URL that ends in an extension the name of the
\* extension is returned
TextFallbackReturnsExtensionName ==
    (tret # <<>> /\ SpansOf(text[1], 1) # {}) =>
        LET s == FirstSpan(SpansOf(text[1], 1))
        IN tret[1] = Found(<<ExtensionName(text[1][s[2]])>>)


(* ------------------- get_next_video: records conserved ----------------- *)
C36_TakeStep ==
    IsTake =>
        LET s == Len(skipped')
        IN /\ Len(video_queue') + Len(played_videos') = CountTotal - s
           /\ ret' # <<>> =>
                  /\ Len(played_videos') = Len(played_videos) + 1
                  /\ played_videos'[Len(played_videos')].path = ret'[1]
                  /\ Len(video_queue') = Len(video_queue) - (s + 1)
                  /\ video_queue' = SubSeq(video_queue, s + 2, Len(video_queue))
                  /\ SubSeq(played_videos', 1, Len(played_videos)) = played_videos
           /\ ret' = <<>> =>
                  /\ played_videos' = played_videos
                  /\ video_queue' = SubSeq(video_queue, s + 1, Len(video_queue))

\* C36: get_next_video conserves records: after a call that skipped s
\* invalid records the two queues together hold s records fewer; if the call
\* returned a path, that path is the last element of played_videos,
\* video_queue is shorter by s + 1, and the order of the records left in
\* video_queue and of the records played_videos held before is unchanged.
C36_TakeConservesRecords == [][C36_TakeStep]_vars

\* C36's case: a call has skipped a record and returned a path, now the
\* last of played_videos
C36_Witness ==
    /\ op = "get_next_video"
    /\ Len(skipped) >= 1
    /\ ret # <<>>
    /\ played_videos # <<>>
    /\ played_videos[Len(played_videos)].path = ret[1]


(* ------------------------ the watermark max_uncached ------------------- *)
\* C35: with the filler admitting only after it read a count below
\* max_uncached and _play_next_video acquiring and admitting when
\* get_next_video returned None, the two running concurrently,
\* get_uncached_count() never exceeds max_uncached.
C35_UnplayedWithinWatermark ==
    get_uncached_count(video_queue) <= max_uncached


(* --------------------- get_video_link: unexpected errors --------------- *)
\* the attempt of thread t ends in the except Exception clause
UnexpectedEnd(t) ==
    /\ apc[t] = "waiting"
    /\ answer'[t] \in {"other_error", "unprobeable"}

\* from the request of an attempt to its unexpected end
C37_AttemptStep ==
    \A t \in Threads :
        /\ UnexpectedEnd(t) =>
               /\ retries'[t] = retries[t] + 1
               /\ fail_count' = fail_count
               /\ current_api_index' = current_api_index
               /\ nswitch' = nswitch
               /\ apc'[t] = "sleeping"
        /\ nreq'[t] = nreq[t] + 1 =>
               /\ retries'[t] = retries[t]
               /\ fail_count' = fail_count
               /\ current_api_index' = current_api_index

\* C37: an attempt of get_video_link that ends in an unexpected error (an
\* exception that is neither a ConnectionError nor a Timeout, such as the
\* TypeError of a body whose shape cannot be probed) consumes one retry and
\* leaves fail_count and current_api_index as they were, and the call goes
\* on to return instead of raising.
C37_UnexpectedErrorFrame ==
    /\ [][C37_AttemptStep]_vars
    /\ \A t \in Threads :
           (answer[t] \in {"other_error", "unprobeable"})
               ~> (apc[t] = "idle" /\ aret[t].done)

\* C37's case: the thread sleeps after its second attempt, which ended on a
\* body that cannot be probed, fail_count being 1 from the first attempt
C37_Witness ==
    /\ answer["filler"] = "unprobeable"
    /\ apc["filler"] = "sleeping"
    /\ retries["filler"] = 2
    /\ fail_count = 1
    /\ current_api_index = 0


(* ------------------------- get_video_link: the waits ------------------- *)
\* an iteration of the loop has failed and the thread sleeps
IsFailedAttempt ==
    /\ nreq'["filler"] = nreq["filler"] + 1
    /\ answer'["filler"] # "url"

C34_AttemptStep ==
    IsFailedAttempt =>
        LET kind == answer'["filler"]
            failed == nreq'["filler"]
        IN /\ retries'["filler"] = failed
           /\ kind \in {"non200", "no_url"} =>
                  wait_time' = MinOf(2 ^ failed, 8)
           /\ kind = "connection_error" => wait_time' = 2
           /\ kind = "timeout" => wait_time' = 3
           /\ kind \in {"other_error", "unprobeable"} => wait_time' = 1
           /\ slept' = slept + wait_time'

\* C34: every wait of get_video_link lasts min(2^retries, 8) seconds, retries
\* being the attempts failed so far, after a non-200 answer or an answer
\* without a URL, and 2, 3 and 1 seconds after a connection error, a timeout
\* and an unknown error; no wait exceeds 8 seconds and one call sleeps at
\* most max_retries * 8 seconds in all.
C34_BoundedBackoff ==
    /\ [][C34_AttemptStep]_vars
    /\ [](wait_time <= 8 /\ slept <= max_retries * 8)

\* C34's case: three non-200 answers in one call, slept 2 + 4 + 8 seconds
C34_Witness ==
    /\ retries["filler"] = max_retries
    /\ wait_time = 8
    /\ slept = 14



(* ----------------------------- the filler alone ------------------------ *)
\* the filler calls get_video_link
IsAcquire == fpc = "acquire" /\ fpc' # "acquire"

AtWatermark == constructed /\ get_uncached_count(video_queue) = max_uncached
AtOrAboveWatermark ==
    constructed /\ get_uncached_count(video_queue) >= max_uncached

\* C38 as stated: with the flag never set, every get_video_link and
\* cache_video succeeding, no record taken and max_uncached <= max_cache,
\* the filler, scheduled fairly, brings get_uncached_count() to max_uncached
\* and calls get_video_link no more while the count is at max_uncached.
C38_FillerReachesWatermark ==
    /\ max_uncached <= max_cache
    /\ <>AtWatermark
    /\ [][AtWatermark => ~IsAcquire]_vars

\* C38 amended: under the same conditions get_uncached_count() is
\* eventually at least max_uncached, and equal to it if the store was
\* constructed with at most max_uncached records; the filler calls
\* get_video_link no more while the count is at or above max_uncached.
C38_FillerFillsToWatermark ==
    /\ max_uncached <= max_cache
    /\ <>AtOrAboveWatermark
    /\ (constructed /\ get_uncached_count(video_queue) <= max_uncached)
           ~> AtWatermark
    /\ [][AtOrAboveWatermark => ~IsAcquire]_vars

\* C38's case: the filler has admitted a record, found the count at
\* max_uncached and sleeps its 10 seconds
C38_Witness ==
    /\ AtWatermark
    /\ op = "cache_video"
    /\ fpc = "sleep_enough"
    /\ wait = 10

====
